---- MODULE Spec2Model ----
(***************************************************************************)
(* flat_db: the chunked Table of src/src/table.rs over a file system, with *)
(* its lock-file protocol.  Callers (Procs) run Table operations; every    *)
(* write operation runs one task per chunk (set and remove: one task,      *)
(* set_many: one spawned update_chunk task per chunk of the input).        *)
(* Each await point of the code is a separate step, so tasks interleave    *)
(* exactly where the code can be suspended.  File-system calls may fail:   *)
(* a failure is a nondeterministic alternative of the step that makes the  *)
(* call, drawn from a bounded budget (MaxFaults).                          *)
(***************************************************************************)
EXTENDS Naturals, Sequences, FiniteSets, TLC

\* ------------------------------------------------------------ bounds
\* Number of concurrent callers.
NProcs == 2
\* Total number of operations started in one behaviour.
MaxOps == 2
\* Total number of injected file-system / codec failures in one behaviour.
MaxFaults == 1
\* The lock timeout, counted in sleep intervals of the retry loop
\* (LOCK_ACQUIRE_TIMEOUT seconds / LOCK_ACQUIRE_SLEEP_MILLIS; scaled down).
TimeoutTicks == 1
\* Number of operations one caller runs one after another (SeqSpec).
MaxSeqOps == 3
\* Number of calls made on the FileTable and of I/O faults injected into
\* them (FileSpec).
MaxFileOps == 2
MaxFileFaults == 1

\* ------------------------------------------------- program constants
\* The chunk width C of Table<K, C, T> (the tests use Table<20, 1, _>).
C == 1
CHUNK_FILE_EXTENSION == "yml"
LOCK_FILE_EXTENSION == "lock"
HEXADECIMAL_RADIX == 16

\* ------------------------------------------------------------ inputs
\* Keys Hash<K> (K = 2 bytes): two keys of chunk <<0>>, one of chunk <<1>>.
Hashes == {<<0, 0>>, <<0, 1>>, <<1, 0>>}
\* Records T, opaque.
Items == {1, 2}
Procs == 1..NProcs

\* Option<T> as a sequence of length at most one.
None == <<>>
Some(x) == <<x>>

Min(a, b) == IF a < b THEN a ELSE b

\* -------------------------------------------------------------- Hash
HexDigits == <<"0", "1", "2", "3", "4", "5", "6", "7",
               "8", "9", "a", "b", "c", "d", "e", "f">>

\* A faulty variant of to_hex: no leading zero ("{b:x}").
RECURSIVE to_hex_unpadded(_)
to_hex_unpadded(bytes) ==
    IF bytes = <<>> THEN <<>>
    ELSE (IF bytes[1] < HEXADECIMAL_RADIX THEN <<>>
          ELSE <<HexDigits[(bytes[1] \div HEXADECIMAL_RADIX) + 1]>>)
         \o <<HexDigits[(bytes[1] % HEXADECIMAL_RADIX) + 1]>>
         \o to_hex_unpadded(Tail(bytes))

\* Hash::to_hex: two lowercase hex digits per byte ("{b:02x}").
RECURSIVE to_hex(_)
to_hex(bytes) ==
    IF bytes = <<>> THEN <<>>
    ELSE <<HexDigits[(bytes[1] \div HEXADECIMAL_RADIX) + 1],
           HexDigits[(bytes[1] % HEXADECIMAL_RADIX) + 1]>>
         \o to_hex(Tail(bytes))

\* Hash::truncate::<M>: the slice self.bytes[..M] panics when M exceeds the
\* width; otherwise the first M bytes.
truncate(bytes, M) ==
    IF M > Len(bytes)
    THEN [panic |-> TRUE, value |-> None]
    ELSE [panic |-> FALSE, value |-> Some(SubSeq(bytes, 1, M))]

\* A faulty variant of get_chunk_hash: the last C bytes.
last_bytes(hash) == SubSeq(hash, Len(hash) - C + 1, Len(hash))

\* get_chunk_hash: hash.truncate::<C>().expect(..)
get_chunk_hash(hash) == truncate(hash, C).value[1]

\* Ord of Hash<N>: byte-lexicographic (derive(Ord) on [u8; N]).
HashLess(a, b) ==
    \E i \in 1..Min(Len(a), Len(b)) :
        /\ a[i] < b[i]
        /\ \A j \in 1..(i - 1) : a[j] = b[j]

Chunks == {get_chunk_hash(h) : h \in Hashes}

\* ------------------------------------------------------------- paths
\* Table::get_chunk_path: directory.join("{hash}.yml").
get_chunk_path(chunk_hash) ==
    [stem |-> to_hex(chunk_hash), extension |-> CHUNK_FILE_EXTENSION]

\* A faulty variant of set_extension that leaves the path as it is, so that
\* the lock path is the chunk path.
keep_extension(path, ext) == path

\* PathBuf::set_extension.
set_extension(path, ext) == [path EXCEPT !.extension = ext]

\* A faulty variant of the lock path: one lock file for the whole table.
global_lock(path) == [stem |-> <<>>, extension |-> LOCK_FILE_EXTENSION]

\* The lock path acquire_lock derives from a chunk path.
LockPath(path) == set_extension(path, LOCK_FILE_EXTENSION)

Paths == {get_chunk_path(c) : c \in Chunks}
             \cup {LockPath(get_chunk_path(c)) : c \in Chunks}

\* ------------------------------------------------------ file content
\* A BTreeMap<Hash<K>, T> is a function from a finite set of hashes.
EmptyMap == <<>>

\* A file: absent, or present with the mapping its bytes decode to; bad
\* when the bytes end inside an entry and do not decode.  An empty file
\* decodes to the empty mapping.
NoFile == [exists |-> FALSE, m |-> EmptyMap, bad |-> FALSE]
File(m) == [exists |-> TRUE, m |-> m, bad |-> FALSE]

\* A faulty variant of insert that keeps the value of a key already present.
insert_if_absent(m, k, v) ==
    [h \in (DOMAIN m) \cup {k} |-> IF h \in DOMAIN m THEN m[h] ELSE v]

\* A faulty variant of insert that drops the other keys.
insert_only(m, k, v) == [h \in {k} |-> v]

\* BTreeMap::insert: add or overwrite.
insert(m, k, v) == [h \in (DOMAIN m) \cup {k} |-> IF h = k THEN v ELSE m[h]]

\* A faulty variant of BTreeMap::remove: the entry stays.
remove_nothing(m, k) == m

\* BTreeMap::remove: the mapping without k.
remove(m, k) == [h \in (DOMAIN m) \ {k} |-> m[h]]

\* BTreeMap::get(..).cloned()
lookup(m, k) == IF k \in DOMAIN m THEN Some(m[k]) ELSE None

\* The first j entries of m in key order: what a write of m that stopped
\* after j entries left in the file.
Prefix(m, j) ==
    LET keep == {k \in DOMAIN m :
                    Cardinality({k2 \in DOMAIN m : HashLess(k2, k)}) < j}
    IN  [h \in keep |-> m[h]]

\* The contents an interrupted write of m can leave: a proper prefix of the
\* serialized mapping, cut between two entries or inside one.
Torn(m) ==
    {[exists |-> TRUE, m |-> Prefix(m, j), bad |-> b] :
        j \in 0..(IF Cardinality(DOMAIN m) = 0 THEN 0 ELSE Cardinality(DOMAIN m) - 1),
        b \in BOOLEAN}

\* ----------------------------------------------------------- results
\* Result<_, TableError>.  val wraps the success value: <<>> for (),
\* Option<T> for remove and get, <<n>> for a count.
Pending == [tag |-> "Pending"]
Ok(v) == [tag |-> "Ok", val |-> v]
\* TableError::io / TableError::yaml: operation, path and the source's kind.
Err(operation, path, kind) ==
    [tag |-> "Err", operation |-> operation, path |-> path, kind |-> kind]

\* A faulty variant of group_by_chunk: every chunk is given all the items.
group_whole(items) ==
    [c \in {get_chunk_hash(h) : h \in DOMAIN items} |-> items]

\* A faulty variant of group_by_chunk: one group, under the chunk of the
\* least key, with all the items.
group_single(items) ==
    [c \in {get_chunk_hash(CHOOSE h \in DOMAIN items :
                \A h2 \in (DOMAIN items) \ {h} : HashLess(h, h2))} |-> items]

\* group_by_chunk: the input mapping split by chunk hash.
group_by_chunk(items) ==
    [c \in {get_chunk_hash(h) : h \in DOMAIN items} |->
        [h \in {x \in DOMAIN items : get_chunk_hash(x) = c} |-> items[h]]]

\* The elements of a set of hashes as a sequence in Ord order
\* (BTreeMap::into_iter).
RECURSIVE SortedSeq(_)
SortedSeq(S) ==
    IF S = {} THEN <<>>
    ELSE LET least == CHOOSE x \in S : \A y \in S \ {x} : HashLess(x, y)
         IN  <<least>> \o SortedSeq(S \ {least})

\* A faulty variant of the sum that counts the tasks, not their items.
CountSeq(s) == Len(s)

RECURSIVE SumSeq(_)
SumSeq(s) == IF s = <<>> THEN 0 ELSE s[1] + SumSeq(Tail(s))


\* A faulty variant of the update loop that replaces whatever replace says.
UpdateAll(keys, new_chunk, replace, chunk0, added) ==
    [chunk |-> [h \in (DOMAIN chunk0) \cup (DOMAIN new_chunk) |->
                   IF h \in DOMAIN new_chunk THEN new_chunk[h] ELSE chunk0[h]],
     added |-> added + Len(keys)]

\* The update loop of update_chunk over new_chunk in key order: the merged
\* chunk and the number of items added.
RECURSIVE UpdateLoop(_, _, _, _, _)
UpdateLoop(keys, new_chunk, replace, chunk0, added) ==
    IF keys = <<>> THEN [chunk |-> chunk0, added |-> added]
    ELSE LET hash == Head(keys)
         IN  IF replace \/ hash \notin DOMAIN chunk0
             THEN UpdateLoop(Tail(keys), new_chunk, replace,
                             insert(chunk0, hash, new_chunk[hash]), added + 1)
             ELSE UpdateLoop(Tail(keys), new_chunk, replace, chunk0, added)

\* A faulty variant of batch with the two counts exchanged.
batch_exchanged(succeeded, failed, errors) ==
    [tag |-> "Err", operation |-> "SetMany", path |-> None, kind |-> "Batch",
     succeeded |-> failed, failed |-> succeeded, errors |-> errors]

\* TableError::batch
batch(succeeded, failed, errors) ==
    [tag |-> "Err", operation |-> "SetMany", path |-> None, kind |-> "Batch",
     succeeded |-> succeeded, failed |-> failed, errors |-> errors]

IsErr(r) == r.tag = "Err"

\* A faulty variant of extend: the entries read so far are dropped.
extend_replace(items, entries) == entries

\* BTreeMap::extend: the entries added to items, replacing equal keys.
extend(items, entries) ==
    [h \in (DOMAIN items) \cup (DOMAIN entries) |->
        IF h \in DOMAIN entries THEN entries[h] ELSE items[h]]

\* ------------------------------------------------------------- state
VARIABLES
    dirExists,  \* the table directory exists
    fs,         \* the files of the table directory, by path
    op,         \* per caller: the operation it runs (NoOp: none)
    tpc,        \* per caller and chunk: where that chunk's task stands
    elapsed,    \* per task: start.elapsed() in sleep intervals (kept until the task ends)
    chunk,      \* per task: the chunk it is about to write
    res,        \* per task: its result (prepared at the read, final at the end)
    todo,       \* per caller: the directory entries get_all has yet to visit
    acc,        \* per caller: get_all's items so far
    returned,   \* the operation that returned in the last step, its result, whether
                \* a read of it was torn, (set, remove) the file without the call,
                \* and (solo) the map of the successful writes before the call
    faults,     \* failures injected so far
    nops,       \* operations started so far
    owner,      \* history: per chunk, the caller that created the lock file (0: none)
    serial,     \* history: per chunk, the operations applied in lock order
    lastSet,    \* history: per chunk, the last returned set since the last lock
    pre,        \* history: per caller, the chunk file as it would be without its call
    preWrite,   \* history: per chunk, the file before the write now in flight
    sawTorn,    \* history: per caller, a read saw neither side of a write in flight
    anyFail,    \* history: some write operation returned an error
    solo,       \* one caller runs its operations one after another
    abs,        \* history (solo): the key-to-record map of the successful writes
    hashVal,    \* Hash text conversion: the Hash<K> in hand (None: none yet)
    text,       \* Hash text conversion: its hexadecimal string (None: none yet)
    parsed,     \* Hash text conversion: the result of from_string (Pending: none yet)
    cut,        \* Hash truncation: the width asked for and the outcome (Pending: none yet)
    ftRoot,     \* FileTable: the table directory exists
    ftDirs,     \* FileTable: the chunk directories that exist, by name
    ftFiles,    \* FileTable: the stored files, by path
    ftOp,       \* FileTable: the call in progress (NoFileOp: none)
    ftPc,       \* FileTable: per item of the call, the position of its set
    ftRes,      \* FileTable: per item of the call, the result of its set
    ftReturned, \* FileTable: the call that returned in the last step, with its result
    ftFaults,   \* FileTable: I/O faults injected so far
    ftOps,      \* FileTable: calls made so far
    ftCopied,   \* history: the keys with a copy that succeeded
    ftBegun,    \* history: the keys with a copy that created the stored file
    ftRaced     \* history: the keys whose create_dir_all found the directory made meanwhile

hashVars == <<hashVal, text, parsed, cut>>

tableVars ==
    <<dirExists, fs, op, tpc, elapsed, chunk, res, todo, acc, returned,
      faults, nops, owner, serial, lastSet, pre, preWrite, sawTorn, anyFail,
      solo, abs>>

fileVars == <<ftRoot, ftDirs, ftFiles, ftOp, ftPc, ftRes, ftReturned, ftFaults,
              ftOps, ftCopied, ftBegun, ftRaced>>
vars == <<tableVars, hashVars, fileVars>>

NoOp == [kind |-> "none", key |-> <<>>, item |-> 0, items |-> EmptyMap,
         replace |-> FALSE]

\* No operation returned in the last step.
NoReturn ==
    [proc |-> 0, op |-> NoOp, ret |-> Pending, torn |-> FALSE, before |-> NoFile,
     was |-> EmptyMap]

\* The table directory itself, as a path.
Directory == [stem |-> <<>>, extension |-> ""]

ChunkPath(c) == get_chunk_path(c)

\* The chunk a chunk file or lock file belongs to.
ChunkOf(path) == CHOOSE c \in Chunks : to_hex(c) = path.stem

\* The chunks an operation runs a task for.
TaskChunks(o) ==
    CASE o.kind \in {"set", "remove"} -> {get_chunk_hash(o.key)}
      [] o.kind = "set_many" -> DOMAIN group_by_chunk(o.items)
      [] OTHER -> {}

IsWrite(o) == o.kind \in {"set", "remove", "set_many"}

\* A task between its acquire_lock and the end of its release_lock.
Holding == {"read", "write", "writing", "release"}

\* The chunk file of chunk <<0>> when the table is opened: absent, left by
\* an earlier run with one item, or with bytes that do not decode.
InitFiles ==
    {NoFile, File(insert(EmptyMap, <<0, 0>>, 1)),
     [exists |-> TRUE, m |-> EmptyMap, bad |-> TRUE]}

\* The state after Table::new, before any operation.
TableInit ==
    /\ dirExists \in BOOLEAN
    /\ \E f \in InitFiles :
          /\ ~dirExists => f = NoFile
          /\ fs = [path \in Paths |->
                    IF path = get_chunk_path(<<0>>) THEN f ELSE NoFile]
    /\ op = [p \in Procs |-> NoOp]
    /\ tpc = [p \in Procs |-> [c \in Chunks |-> "none"]]
    /\ elapsed = [p \in Procs |-> [c \in Chunks |-> 0]]
    /\ chunk = [p \in Procs |-> [c \in Chunks |-> EmptyMap]]
    /\ res = [p \in Procs |-> [c \in Chunks |-> Pending]]
    /\ todo = [p \in Procs |-> {}]
    /\ acc = [p \in Procs |-> EmptyMap]
    /\ returned = NoReturn
    /\ faults = 0
    /\ nops = 0
    /\ owner = [c \in Chunks |-> 0]
    /\ serial = [c \in Chunks |-> fs[get_chunk_path(c)]]
    /\ lastSet = [c \in Chunks |-> None]
    /\ pre = [p \in Procs |-> NoFile]
    /\ preWrite = [c \in Chunks |-> NoFile]
    /\ sawTorn = [p \in Procs |-> FALSE]
    /\ anyFail = FALSE
    /\ abs = IF fs[get_chunk_path(<<0>>)].exists
             THEN fs[get_chunk_path(<<0>>)].m ELSE EmptyMap

\* No Hash text conversion has begun.
HashIdle == hashVal = None /\ text = None /\ parsed = Pending /\ cut = Pending

\* FileTable: the extension of the stored files (the tests use "txt").
FileExtension == "txt"

\* get_chunk_hash of file_table.rs: hash.truncate::<C>().expect(..)
file_get_chunk_hash(hash) == truncate(hash, C).value[1]

\* FileTable::get_path: directory / hex of the chunk hash / "{hash}.{extension}".
get_path(hash) ==
    [dir |-> to_hex(file_get_chunk_hash(hash)), stem |-> to_hex(hash),
     extension |-> FileExtension]

FilePaths == {get_path(h) : h \in Hashes}

\* The source paths handed to set: NoSource names no file, the others name
\* a file each.
NoSource == 0
SourcePaths == {NoSource, 1, 2}

\* A stored file: absent, or holding the bytes of a source, all of them
\* or (a copy in flight or broken off) only some.
NoStored == [exists |-> FALSE, whole |-> FALSE, src |-> NoSource]
Partial(src) == [exists |-> TRUE, whole |-> FALSE, src |-> src]
Whole(src) == [exists |-> TRUE, whole |-> TRUE, src |-> src]

NoFileOp == [kind |-> "none", key |-> <<>>, items |-> EmptyMap]
NoFileReturn == [op |-> NoFileOp, ret |-> Pending, results |-> EmptyMap,
                 copied |-> {}, begun |-> {}]

\* FileTable::new: nothing is stored and no call is in progress.
FileIdle ==
    /\ ftDirs = {}
    /\ ftFiles = [path \in FilePaths |-> NoStored]
    /\ ftOp = NoFileOp
    /\ ftPc = [h \in Hashes |-> "none"]
    /\ ftRes = [h \in Hashes |-> Pending]
    /\ ftReturned = NoFileReturn
    /\ ftFaults = 0
    /\ ftOps = 0
    /\ ftCopied = {}
    /\ ftBegun = {}
    /\ ftRaced = {}

\* No FileTable.
FileOff == ftRoot = FALSE /\ FileIdle

\* Concurrent callers.
Init == TableInit /\ solo = FALSE /\ HashIdle /\ FileOff

\* One caller, one operation after another.
SeqInit == TableInit /\ solo = TRUE /\ HashIdle /\ FileOff

Idle(p) == op[p].kind = "none"
\* A caller may start an operation: any caller while operations remain, or
\* (solo) the one caller, after its previous operation returned.
CanStart(p) ==
    /\ Idle(p)
    /\ IF solo THEN p = 1 /\ nops < MaxSeqOps ELSE nops < MaxOps
CanFault == faults < MaxFaults

\* ---------------------------------------------------- start and end
\* A caller enters operation o: one task per chunk of o, each at the top of
\* acquire_lock with start = Instant::now().
Begin(p, o) ==
    /\ op' = [op EXCEPT ![p] = o]
    /\ tpc' = [tpc EXCEPT ![p] =
                [c \in Chunks |-> IF c \in TaskChunks(o) THEN "acquire" ELSE "none"]]
    /\ pre' = [pre EXCEPT ![p] =
                IF o.kind \in {"set", "remove"}
                THEN fs[get_chunk_path(get_chunk_hash(o.key))]
                ELSE NoFile]
    /\ nops' = nops + 1

\* What a write operation returns once its tasks have ended with results rs
\* (by chunk).  set and remove return their task's result; set_many adds up
\* the counts of its tasks or collects their errors, in chunk order.
Outcome(o, rs) ==
    LET cs == SortedSeq(TaskChunks(o))
        results == [i \in 1..Len(cs) |-> rs[cs[i]]]
        errors == SelectSeq(results, IsErr)
        chunk_count == Len(cs)
    IN  IF o.kind = "set_many"
        THEN IF errors = <<>>
             THEN Ok(<<SumSeq([i \in 1..Len(cs) |-> results[i].val[1]])>>)
             ELSE batch(chunk_count - Len(errors), Len(errors), errors)
        ELSE results[1]

\* The abstract map after a successful operation o: set binds the key,
\* remove unbinds it, set_many binds every input key that is absent or, with
\* replace, every input key; reads change nothing.
AbsApply(o, a) ==
    CASE o.kind = "set" ->
            [h \in (DOMAIN a) \cup {o.key} |-> IF h = o.key THEN o.item ELSE a[h]]
      [] o.kind = "remove" -> [h \in (DOMAIN a) \ {o.key} |-> a[h]]
      [] o.kind = "set_many" ->
            [h \in (DOMAIN a) \cup (DOMAIN o.items) |->
                IF h \in DOMAIN o.items /\ (o.replace \/ h \notin DOMAIN a)
                THEN o.items[h] ELSE a[h]]
      [] OTHER -> a

\* The caller's operation returns r: its frame is gone.  pre2 is pre as the
\* step leaves it for the other callers.
Leave(p, r, torn, pre2) ==
    /\ returned' = [proc |-> p, op |-> op[p], ret |-> r, torn |-> torn,
                    before |-> pre[p], was |-> abs]
    /\ op' = [op EXCEPT ![p] = NoOp]
    /\ tpc' = [tpc EXCEPT ![p] = [c \in Chunks |-> "none"]]
    /\ elapsed' = [elapsed EXCEPT ![p] = [c \in Chunks |-> 0]]
    /\ chunk' = [chunk EXCEPT ![p] = [c \in Chunks |-> EmptyMap]]
    /\ res' = [res EXCEPT ![p] = [c \in Chunks |-> Pending]]
    /\ todo' = [todo EXCEPT ![p] = {}]
    /\ acc' = [acc EXCEPT ![p] = EmptyMap]
    /\ pre' = [pre2 EXCEPT ![p] = NoFile]
    /\ sawTorn' = [sawTorn EXCEPT ![p] = FALSE]
    /\ anyFail' = (anyFail \/ (IsWrite(op[p]) /\ IsErr(r)))
    /\ abs' = IF solo /\ r.tag = "Ok" THEN AbsApply(op[p], abs) ELSE abs

\* Task (p, c) ends in state pc ("ok" or "err") with result r.  When it is
\* the caller's last task the operation returns (set, remove: at once;
\* set_many: join_all is complete).
TaskEnd(p, c, pc, r, pre2) ==
    LET rs == [res[p] EXCEPT ![c] = r] IN
    IF \A c2 \in Chunks \ {c} : tpc[p][c2] \in {"none", "ok", "err"}
    THEN Leave(p, Outcome(op[p], rs), FALSE, pre2)
    ELSE /\ tpc' = [tpc EXCEPT ![p][c] = pc]
         /\ res' = [res EXCEPT ![p][c] = r]
         /\ chunk' = [chunk EXCEPT ![p][c] = EmptyMap]
         /\ elapsed' = [elapsed EXCEPT ![p][c] = 0]
         /\ pre' = pre2
         /\ returned' = NoReturn
         /\ UNCHANGED <<op, todo, acc, sawTorn, anyFail, abs>>

\* Table::set, up to its first await.
StartSet(p) ==
    /\ CanStart(p)
    /\ \E hash \in Hashes, item \in Items :
          Begin(p, [NoOp EXCEPT !.kind = "set", !.key = hash, !.item = item])
    /\ returned' = NoReturn
    /\ UNCHANGED <<hashVars, fileVars, solo, dirExists, fs, elapsed, chunk, res, todo,
                   acc, faults, owner, serial, lastSet, preWrite, sawTorn,
                   anyFail, abs>>

\* Table::remove, up to its first await.
StartRemove(p) ==
    /\ CanStart(p)
    /\ \E hash \in Hashes :
          Begin(p, [NoOp EXCEPT !.kind = "remove", !.key = hash])
    /\ returned' = NoReturn
    /\ UNCHANGED <<hashVars, fileVars, solo, dirExists, fs, elapsed, chunk, res, todo,
                   acc, faults, owner, serial, lastSet, preWrite, sawTorn,
                   anyFail, abs>>

\* The inputs of set_many: two keys of one chunk, two keys of two chunks,
\* each with the record 2 for both keys.
ItemMaps ==
    {[h \in S |-> 2] : S \in {{<<0, 0>>, <<0, 1>>}, {<<0, 1>>, <<1, 0>>}}}

\* Table::set_many, up to join_all: group_by_chunk and one spawned
\* update_chunk task per chunk.
StartSetMany(p) ==
    /\ CanStart(p)
    /\ \E items \in ItemMaps, replace \in BOOLEAN :
          Begin(p, [NoOp EXCEPT !.kind = "set_many", !.items = items,
                                !.replace = replace])
    /\ returned' = NoReturn
    /\ UNCHANGED <<hashVars, fileVars, solo, dirExists, fs, elapsed, chunk, res, todo,
                   acc, faults, owner, serial, lastSet, preWrite, sawTorn,
                   anyFail, abs>>

\* Table::set_many of no items: no task is spawned; it returns Ok(0).
SetManyEmpty(p) ==
    /\ CanStart(p)
    /\ nops' = nops + 1
    /\ returned' = [proc |-> p, op |-> [NoOp EXCEPT !.kind = "set_many"],
                    ret |-> Outcome([NoOp EXCEPT !.kind = "set_many"], <<>>),
                    torn |-> FALSE, before |-> NoFile, was |-> abs]
    /\ UNCHANGED <<hashVars, fileVars, solo, dirExists, fs, op, tpc, elapsed, chunk,
                   res, todo, acc, faults, owner, serial, lastSet, pre,
                   preWrite, sawTorn, anyFail, abs>>

\* A faulty variant of the change of a chunk: remove writes the chunk back
\* whether or not it removed an entry.
ModifyWriteBack(o, c, existing) ==
    IF o.kind = "remove"
    THEN [chunk |-> remove(existing, o.key), val |-> lookup(existing, o.key),
          write |-> TRUE]
    ELSE IF o.kind = "set"
    THEN [chunk |-> insert(existing, o.key, o.item), val |-> <<>>,
          write |-> TRUE]
    ELSE [chunk |-> existing, val |-> <<0>>, write |-> TRUE]

\* ------------------------------------------------------- task steps
\* An operation's effect on the chunk it read: the chunk to write, the
\* value to return and whether it writes at all (set: insert; remove:
\* remove, written back only if an item was removed; set_many: the update
\* loop of update_chunk).
Modify(o, c, existing) ==
    CASE o.kind = "set" ->
            [chunk |-> insert(existing, o.key, o.item), val |-> <<>>,
             write |-> TRUE]
      [] o.kind = "remove" ->
            [chunk |-> remove(existing, o.key), val |-> lookup(existing, o.key),
             write |-> lookup(existing, o.key) # None]
      [] o.kind = "set_many" ->
            LET new_chunk == group_by_chunk(o.items)[c]
                u == UpdateLoop(SortedSeq(DOMAIN new_chunk), new_chunk,
                                o.replace, existing, 0)
            IN  [chunk |-> u.chunk, val |-> <<u.added>>, write |-> TRUE]

\* The chunk file after the operation ran alone on file f (a file that
\* does not decode fails the operation and stays).
Apply(o, c, f) ==
    LET mod == Modify(o, c, IF f.exists THEN f.m ELSE EmptyMap)
    IN  IF f.exists /\ f.bad THEN f
        ELSE IF mod.write THEN File(mod.chunk) ELSE f

\* pre after task (q, c) changed the chunk file to content: every other
\* single-key call on that chunk would now find content without its own doing.
TrackPre(q, c, content) ==
    [p \in Procs |->
        IF /\ p # q
           /\ op[p].kind \in {"set", "remove"}
           /\ get_chunk_hash(op[p].key) = c
        THEN content ELSE pre[p]]

\* Faulty variants of the lock file's creation: create(true) in place of
\* create_new(true), which opens a file that exists; and a creation that
\* never succeeds.
create_ok(lock) == dirExists
create_never(lock) == FALSE

\* OpenOptions::new().write(true).create_new(true).open(&lock).is_ok():
\* the file is created iff its directory exists and it does not.
create_new_ok(lock) == dirExists /\ ~fs[lock].exists

\* Faulty variants of the timeout test: >= in place of >, and a test that
\* never holds.
timed_out_early(e) == e >= TimeoutTicks
never_timed_out(e) == FALSE

\* start.elapsed() > timeout
timed_out(e) == e > TimeoutTicks

\* A faulty variant of acquire_lock that goes on without creating the lock
\* file.
AcquireNothing(p, c) ==
    /\ tpc[p][c] = "acquire"
    /\ dirExists
    /\ tpc' = [tpc EXCEPT ![p][c] = "read"]
    /\ serial' = [serial EXCEPT ![c] = Apply(op[p], c, serial[c])]
    /\ lastSet' = [lastSet EXCEPT ![c] = None]
    /\ returned' = NoReturn
    /\ UNCHANGED <<hashVars, fileVars, solo, dirExists, fs, op, elapsed, chunk,
                   res, todo, acc, faults, nops, owner, pre, preWrite, sawTorn,
                   anyFail, abs>>

\* acquire_lock, an attempt that creates the lock file.
AcquireLock(p, c) ==
    LET lock == LockPath(ChunkPath(c)) IN
    /\ tpc[p][c] = "acquire"
    /\ create_new_ok(lock)
    /\ fs' = [fs EXCEPT ![lock] = File(EmptyMap)]
    /\ tpc' = [tpc EXCEPT ![p][c] = "read"]
    /\ owner' = [owner EXCEPT ![c] = p]
    /\ serial' = [serial EXCEPT ![c] = Apply(op[p], c, serial[c])]
    /\ lastSet' = [lastSet EXCEPT ![c] = None]
    /\ returned' = NoReturn
    /\ UNCHANGED <<hashVars, fileVars, solo, dirExists, op, elapsed, chunk, res, todo,
                   acc, faults, nops, pre, preWrite, sawTorn, anyFail, abs>>

\* acquire_lock, a failed attempt within the timeout: sleep one interval
\* (or longer) and try again.
AcquireRetry(p, c) ==
    LET lock == LockPath(ChunkPath(c)) IN
    /\ tpc[p][c] = "acquire"
    /\ ~create_new_ok(lock)
    /\ ~timed_out(elapsed[p][c])
    /\ \E d \in 1..2 :
          elapsed' = [elapsed EXCEPT ![p][c] = Min(@ + d, TimeoutTicks + 1)]
    /\ returned' = NoReturn
    /\ UNCHANGED <<hashVars, fileVars, solo, dirExists, fs, op, tpc, chunk, res, todo,
                   acc, faults, nops, owner, serial, lastSet, pre, preWrite,
                   sawTorn, anyFail, abs>>

\* acquire_lock, a failed attempt after the timeout.
AcquireTimeout(p, c) ==
    LET lock == LockPath(ChunkPath(c)) IN
    /\ tpc[p][c] = "acquire"
    /\ ~create_new_ok(lock)
    /\ timed_out(elapsed[p][c])
    /\ TaskEnd(p, c, "err", Err("AcquireLock", Some(lock), "TimedOut"), pre)
    /\ UNCHANGED <<hashVars, fileVars, solo, dirExists, fs, faults, nops, owner, serial,
                   lastSet, preWrite>>

\* chunk_path.exists(), read_chunk and the change of the chunk in memory.
ReadChunk(p, c) ==
    LET path == ChunkPath(c)
        mod == Modify(op[p], c, IF fs[path].exists THEN fs[path].m ELSE EmptyMap)
    IN
    /\ tpc[p][c] = "read"
    /\ ~(fs[path].exists /\ fs[path].bad)
    /\ chunk' = [chunk EXCEPT ![p][c] = mod.chunk]
    /\ res' = [res EXCEPT ![p][c] = Ok(mod.val)]
    /\ tpc' = [tpc EXCEPT ![p][c] = IF mod.write THEN "write" ELSE "release"]
    /\ returned' = NoReturn
    /\ UNCHANGED <<hashVars, fileVars, solo, dirExists, fs, op, elapsed, todo, acc,
                   faults, nops, owner, serial, lastSet, pre, preWrite,
                   sawTorn, anyFail, abs>>

\* read_chunk: serde_yaml::from_slice fails on bytes that do not decode.
ReadDecodeError(p, c) ==
    LET path == ChunkPath(c) IN
    /\ tpc[p][c] = "read"
    /\ fs[path].exists /\ fs[path].bad
    /\ TaskEnd(p, c, "err", Err("Deserialize", Some(path), "Yaml"), pre)
    /\ UNCHANGED <<hashVars, fileVars, solo, dirExists, fs, faults, nops, owner, serial,
                   lastSet, preWrite>>

\* read_chunk: tokio::fs::read fails.
ReadIoError(p, c) ==
    LET path == ChunkPath(c) IN
    /\ tpc[p][c] = "read"
    /\ fs[path].exists
    /\ CanFault
    /\ faults' = faults + 1
    /\ TaskEnd(p, c, "err", Err("ReadChunk", Some(path), "Io"), pre)
    /\ UNCHANGED <<hashVars, fileVars, solo, dirExists, fs, nops, owner, serial,
                   lastSet, preWrite>>

\* write_chunk: serde_yaml::to_string fails; the file is not touched.
WriteSerializeError(p, c) ==
    /\ tpc[p][c] = "write"
    /\ CanFault
    /\ faults' = faults + 1
    /\ TaskEnd(p, c, "err", Err("Serialize", Some(ChunkPath(c)), "Yaml"), pre)
    /\ UNCHANGED <<hashVars, fileVars, solo, dirExists, fs, nops, owner, serial,
                   lastSet, preWrite>>

\* write_chunk: tokio::fs::write cannot open the file; it is not touched.
WriteCreateError(p, c) ==
    /\ tpc[p][c] = "write"
    /\ CanFault
    /\ faults' = faults + 1
    /\ TaskEnd(p, c, "err", Err("WriteChunk", Some(ChunkPath(c)), "Io"), pre)
    /\ UNCHANGED <<hashVars, fileVars, solo, dirExists, fs, nops, owner, serial,
                   lastSet, preWrite>>

\* write_chunk: tokio::fs::write opens the file (created or truncated to
\* no bytes) before it writes the new bytes.
WriteBegin(p, c) ==
    LET path == ChunkPath(c) IN
    /\ tpc[p][c] = "write"
    /\ fs' = [fs EXCEPT ![path] = File(EmptyMap)]
    /\ preWrite' = [preWrite EXCEPT ![c] = fs[path]]
    /\ pre' = TrackPre(p, c, File(EmptyMap))
    /\ tpc' = [tpc EXCEPT ![p][c] = "writing"]
    /\ returned' = NoReturn
    /\ UNCHANGED <<hashVars, fileVars, solo, dirExists, op, elapsed, chunk, res, todo,
                   acc, faults, nops, owner, serial, lastSet, sawTorn,
                   anyFail, abs>>

\* A faulty variant of the end of write_chunk that deletes the file of a
\* chunk left without entries.
WriteEndOrDelete(p, c) ==
    LET path == ChunkPath(c) IN
    /\ tpc[p][c] = "writing"
    /\ fs' = [fs EXCEPT ![path] =
                IF chunk[p][c] = EmptyMap THEN NoFile ELSE File(chunk[p][c])]
    /\ preWrite' = [preWrite EXCEPT ![c] = NoFile]
    /\ pre' = TrackPre(p, c, fs'[path])
    /\ tpc' = [tpc EXCEPT ![p][c] = "release"]
    /\ chunk' = [chunk EXCEPT ![p][c] = EmptyMap]
    /\ returned' = NoReturn
    /\ UNCHANGED <<hashVars, fileVars, solo, dirExists, op, elapsed, res, todo,
                   acc, faults, nops, owner, serial, lastSet, sawTorn, anyFail,
                   abs>>

\* write_chunk: the bytes of the whole chunk are in the file.
WriteEnd(p, c) ==
    LET path == ChunkPath(c) IN
    /\ tpc[p][c] = "writing"
    /\ fs' = [fs EXCEPT ![path] = File(chunk[p][c])]
    /\ preWrite' = [preWrite EXCEPT ![c] = NoFile]
    /\ pre' = TrackPre(p, c, File(chunk[p][c]))
    /\ tpc' = [tpc EXCEPT ![p][c] = "release"]
    /\ chunk' = [chunk EXCEPT ![p][c] = EmptyMap]
    /\ returned' = NoReturn
    /\ UNCHANGED <<hashVars, fileVars, solo, dirExists, op, elapsed, res, todo, acc,
                   faults, nops, owner, serial, lastSet, sawTorn, anyFail,
                   abs>>

\* write_chunk: the write fails part-way; the file keeps what was written.
WriteError(p, c) ==
    LET path == ChunkPath(c) IN
    /\ tpc[p][c] = "writing"
    /\ CanFault
    /\ faults' = faults + 1
    /\ \E torn \in Torn(chunk[p][c]) :
          /\ fs' = [fs EXCEPT ![path] = torn]
          /\ TaskEnd(p, c, "err", Err("WriteChunk", Some(path), "Io"),
                     TrackPre(p, c, torn))
    /\ preWrite' = [preWrite EXCEPT ![c] = NoFile]
    /\ UNCHANGED <<hashVars, fileVars, solo, dirExists, nops, owner, serial, lastSet>>

\* A faulty variant of remove_file that leaves the file.
keep_file(files, path) == files

\* tokio::fs::remove_file
remove_file(files, path) == [files EXCEPT ![path] = NoFile]

\* release_lock: the lock file is removed; the task returns its result.
ReleaseLock(p, c) ==
    LET lock == LockPath(ChunkPath(c)) IN
    /\ tpc[p][c] = "release"
    /\ fs' = remove_file(fs, lock)
    /\ owner' = [owner EXCEPT ![c] = IF fs'[lock].exists THEN @ ELSE 0]
    /\ lastSet' = [lastSet EXCEPT ![c] =
                    IF op[p].kind = "set" THEN Some(<<op[p].key, op[p].item>>)
                    ELSE None]
    /\ TaskEnd(p, c, "ok", res[p][c], pre)
    /\ UNCHANGED <<hashVars, fileVars, solo, dirExists, faults, nops, serial, preWrite>>

\* release_lock: remove_file fails; the error is returned.
ReleaseError(p, c) ==
    LET lock == LockPath(ChunkPath(c)) IN
    /\ tpc[p][c] = "release"
    /\ CanFault
    /\ faults' = faults + 1
    /\ TaskEnd(p, c, "err", Err("ReleaseLock", Some(lock), "Io"), pre)
    /\ UNCHANGED <<hashVars, fileVars, solo, dirExists, fs, nops, owner, serial,
                   lastSet, preWrite>>

\* ------------------------------------------------------------- reads
\* A read of chunk c's file now returns neither the mapping before the
\* write in flight nor the mapping after it.
TornRead(c) ==
    LET path == ChunkPath(c) IN
    \E q \in Procs :
        /\ tpc[q][c] = "writing"
        /\ \/ fs[path].bad
           \/ fs[path].m \notin {preWrite[c].m, chunk[q][c]}

\* A caller returns r from an operation o that ran in one step.
ReturnAtOnce(p, o, r, torn) ==
    /\ nops' = nops + 1
    /\ returned' = [proc |-> p, op |-> o, ret |-> r, torn |-> torn,
                    before |-> NoFile, was |-> abs]

\* Table::get: no lock; the chunk file is read if it exists.
Get(p) ==
    /\ CanStart(p)
    /\ \E hash \in Hashes :
          LET c == get_chunk_hash(hash)
              path == get_chunk_path(c)
          IN  ReturnAtOnce(p, [NoOp EXCEPT !.kind = "get", !.key = hash],
                  IF ~fs[path].exists THEN Ok(None)
                  ELSE IF fs[path].bad
                       THEN Err("Deserialize", Some(path), "Yaml")
                       ELSE Ok(lookup(fs[path].m, hash)),
                  fs[path].exists /\ TornRead(c))
    /\ UNCHANGED <<hashVars, fileVars, solo, dirExists, fs, op, tpc, elapsed, chunk,
                   res, todo, acc, faults, owner, serial, lastSet, pre,
                   preWrite, sawTorn, anyFail, abs>>

\* Table::get: tokio::fs::read fails.
GetIoError(p) ==
    /\ CanStart(p)
    /\ CanFault
    /\ faults' = faults + 1
    /\ \E hash \in Hashes :
          LET path == get_chunk_path(get_chunk_hash(hash))
          IN  /\ fs[path].exists
              /\ ReturnAtOnce(p, [NoOp EXCEPT !.kind = "get", !.key = hash],
                              Err("ReadChunk", Some(path), "Io"), FALSE)
    /\ UNCHANGED <<hashVars, fileVars, solo, dirExists, fs, op, tpc, elapsed, chunk,
                   res, todo, acc, owner, serial, lastSet, pre, preWrite,
                   sawTorn, anyFail, abs>>

\* The entries read_dir lists: the files of the directory.
Entries == {path \in Paths : fs[path].exists}

\* Table::get_all: read_dir and the first next_entry; the entries are then
\* visited one by one, in the directory's order.
StartGetAll(p) ==
    /\ CanStart(p)
    /\ dirExists
    /\ Entries # {}
    /\ Begin(p, [NoOp EXCEPT !.kind = "get_all"])
    /\ todo' = [todo EXCEPT ![p] = Entries]
    /\ returned' = NoReturn
    /\ UNCHANGED <<hashVars, fileVars, solo, dirExists, fs, elapsed, chunk, res, acc,
                   faults, owner, serial, lastSet, preWrite, sawTorn, anyFail,
                   abs>>

\* Table::get_all on an empty directory: no entry, no item.
GetAllEmpty(p) ==
    /\ CanStart(p)
    /\ dirExists
    /\ Entries = {}
    /\ ReturnAtOnce(p, [NoOp EXCEPT !.kind = "get_all"], Ok(EmptyMap), FALSE)
    /\ UNCHANGED <<hashVars, fileVars, solo, dirExists, fs, op, tpc, elapsed, chunk,
                   res, todo, acc, faults, owner, serial, lastSet, pre,
                   preWrite, sawTorn, anyFail, abs>>

\* A faulty variant of get_all on a missing directory: no entry, no item,
\* no error.
GetAllMissingAsEmpty(p) ==
    /\ CanStart(p)
    /\ ~dirExists
    /\ ReturnAtOnce(p, [NoOp EXCEPT !.kind = "get_all"], Ok(EmptyMap), FALSE)
    /\ UNCHANGED <<hashVars, fileVars, solo, dirExists, fs, op, tpc, elapsed, chunk,
                   res, todo, acc, faults, owner, serial, lastSet, pre,
                   preWrite, sawTorn, anyFail, abs>>

\* Table::get_all: read_dir fails on a missing directory.
GetAllReadDirError(p) ==
    /\ CanStart(p)
    /\ ~dirExists
    /\ ReturnAtOnce(p, [NoOp EXCEPT !.kind = "get_all"],
                    Err("ReadDir", Some(Directory), "Io"), FALSE)
    /\ UNCHANGED <<hashVars, fileVars, solo, dirExists, fs, op, tpc, elapsed, chunk,
                   res, todo, acc, faults, owner, serial, lastSet, pre,
                   preWrite, sawTorn, anyFail, abs>>

\* get_all is done with the entry at path, with items so far and torn
\* reads so far; it returns the items after the last entry.
GetAllNext(p, path, items, torn) ==
    IF todo[p] = {path}
    THEN Leave(p, Ok(items), torn, pre)
    ELSE /\ todo' = [todo EXCEPT ![p] = @ \ {path}]
         /\ acc' = [acc EXCEPT ![p] = items]
         /\ sawTorn' = [sawTorn EXCEPT ![p] = torn]
         /\ returned' = NoReturn
         /\ UNCHANGED <<op, tpc, elapsed, chunk, res, pre, anyFail, abs>>

\* A faulty variant of the test of an entry: any file will do.
IsAnyFile(path) == fs[path].exists

\* The entry is a chunk file: !path.is_file() || extension != "yml" is false.
IsChunkFile(path) == fs[path].exists /\ path.extension = CHUNK_FILE_EXTENSION

\* Table::get_all: an entry that is not a chunk file is skipped.
GetAllSkip(p) ==
    /\ op[p].kind = "get_all"
    /\ \E path \in todo[p] :
          /\ ~IsChunkFile(path)
          /\ GetAllNext(p, path, acc[p], sawTorn[p])
    /\ UNCHANGED <<hashVars, fileVars, solo, dirExists, fs, faults, nops, owner, serial,
                   lastSet, preWrite>>

\* Table::get_all: a chunk file is read and its entries are added.
GetAllRead(p) ==
    /\ op[p].kind = "get_all"
    /\ \E path \in todo[p] :
          /\ IsChunkFile(path)
          /\ ~fs[path].bad
          /\ GetAllNext(p, path, extend(acc[p], fs[path].m),
                        sawTorn[p] \/ TornRead(ChunkOf(path)))
    /\ UNCHANGED <<hashVars, fileVars, solo, dirExists, fs, faults, nops, owner, serial,
                   lastSet, preWrite>>

\* Table::get_all: a chunk file does not decode; get_all returns the error.
GetAllDecodeError(p) ==
    /\ op[p].kind = "get_all"
    /\ \E path \in todo[p] :
          /\ IsChunkFile(path)
          /\ fs[path].bad
          /\ Leave(p, Err("Deserialize", Some(path), "Yaml"),
                   sawTorn[p] \/ TornRead(ChunkOf(path)), pre)
    /\ UNCHANGED <<hashVars, fileVars, solo, dirExists, fs, faults, nops, owner, serial,
                   lastSet, preWrite>>

\* Table::get_all: tokio::fs::read of a chunk file fails.
GetAllIoError(p) ==
    /\ op[p].kind = "get_all"
    /\ CanFault
    /\ faults' = faults + 1
    /\ \E path \in todo[p] :
          /\ IsChunkFile(path)
          /\ Leave(p, Err("ReadChunk", Some(path), "Io"), sawTorn[p], pre)
    /\ UNCHANGED <<hashVars, fileVars, solo, dirExists, fs, nops, owner, serial,
                   lastSet, preWrite>>

\* ---------------------------------------------------- specification
TaskStep(p, c) ==
    \/ AcquireLock(p, c)
    \/ AcquireRetry(p, c)
    \/ AcquireTimeout(p, c)
    \/ ReadChunk(p, c)
    \/ ReadDecodeError(p, c)
    \/ ReadIoError(p, c)
    \/ WriteSerializeError(p, c)
    \/ WriteCreateError(p, c)
    \/ WriteBegin(p, c)
    \/ WriteEnd(p, c)
    \/ WriteError(p, c)
    \/ ReleaseLock(p, c)
    \/ ReleaseError(p, c)

Next ==
    \E p \in Procs :
        \/ StartSet(p)
        \/ StartRemove(p)
        \/ StartSetMany(p)
        \/ SetManyEmpty(p)
        \/ Get(p)
        \/ GetIoError(p)
        \/ StartGetAll(p)
        \/ GetAllEmpty(p)
        \/ GetAllReadDirError(p)
        \/ GetAllSkip(p)
        \/ GetAllRead(p)
        \/ GetAllDecodeError(p)
        \/ GetAllIoError(p)
        \/ \E c \in Chunks : TaskStep(p, c)

Spec == Init /\ [][Next]_vars

\* A task's turn in acquire_lock: an attempt, then success, sleep or error.
AcquireStep(p, c) ==
    AcquireLock(p, c) \/ AcquireRetry(p, c) \/ AcquireTimeout(p, c)

\* The single-key write operations and their tasks: the callers of
\* acquire_lock, without the reads and the batches.
WriteNext ==
    \E p \in Procs :
        \/ StartSet(p)
        \/ StartRemove(p)
        \/ \E c \in Chunks : TaskStep(p, c)

\* The runtime polls a task whose sleep has ended: a task in acquire_lock
\* gets its next attempt.  Nothing is assumed of a task that holds a lock.
FairSpec ==
    /\ Init
    /\ [][WriteNext]_vars
    /\ \A p \in Procs : \A c \in Chunks : WF_vars(AcquireStep(p, c))

\* One caller running its operations one after another, every step of them
\* included.
SeqSpec == SeqInit /\ [][Next]_vars

\* ----------------------------------------------- Hash text conversion
\* The key width K of Hash<K> in the conversions, in bytes (the tests use 20).
K == 2

\* Byte values: every u8.
HashBytes == 0..255

UpperDigits == <<"0", "1", "2", "3", "4", "5", "6", "7",
                 "8", "9", "A", "B", "C", "D", "E", "F">>

\* char::to_digit(16): the value of a hexadecimal digit of either case, or
\* HEXADECIMAL_RADIX for any other character.
to_digit(ch) ==
    IF \E i \in 1..HEXADECIMAL_RADIX : HexDigits[i] = ch
    THEN (CHOOSE i \in 1..HEXADECIMAL_RADIX : HexDigits[i] = ch) - 1
    ELSE IF \E i \in 1..HEXADECIMAL_RADIX : UpperDigits[i] = ch
         THEN (CHOOSE i \in 1..HEXADECIMAL_RADIX : UpperDigits[i] = ch) - 1
         ELSE HEXADECIMAL_RADIX

\* HashError
InvalidLength(expected, actual) ==
    [tag |-> "Err", error |-> "InvalidLength", expected |-> expected,
     actual |-> actual]
InvalidCharacter(position) ==
    [tag |-> "Err", error |-> "InvalidCharacter", position |-> position]

\* A slice of a str that does not end on a character boundary panics.
Panic == [tag |-> "Panic"]

\* The characters of the input strings, by UTF-8 byte: hexadecimal digits
\* of both cases, a sign, a letter that is no digit, and the two bytes
\* c3 a9 of the one character U+00E9.
InputBytes == {"0", "a", "F", "+", "g", "c3", "a9"}
LeadByte == "c3"
ContinuationByte == "a9"

\* str::is_char_boundary: the byte index is the end of the string or the
\* byte at the index does not continue a character.
is_char_boundary(s, index) ==
    \/ index = Len(s)
    \/ index < Len(s) /\ s[index + 1] # ContinuationByte

\* The byte sequences that are strings: a lead byte has its continuation
\* byte next to it, and a continuation byte follows a lead byte.
IsStr(s) ==
    \A i \in 1..Len(s) :
        /\ s[i] = LeadByte => (i < Len(s) /\ s[i + 1] = ContinuationByte)
        /\ s[i] = ContinuationByte => (i > 1 /\ s[i - 1] = LeadByte)

\* The strings handed to from_string: every length up to one more than the
\* expected 2K.
Strs == {s \in UNION {[1..n -> InputBytes] : n \in 0..(2 * K + 1)} : IsStr(s)}

\* to_byte: u8::from_str_radix(hex, 16) on two characters: an optional
\* leading "+", then hexadecimal digits of either case.
to_byte(hex) ==
    LET digits == IF hex[1] = "+" THEN Tail(hex) ELSE hex
        valid == \A i \in 1..Len(digits) : to_digit(digits[i]) < HEXADECIMAL_RADIX
    IN  IF ~valid THEN [tag |-> "Err"]
        ELSE IF Len(digits) = 1 THEN Ok(to_digit(digits[1]))
        ELSE Ok(to_digit(digits[1]) * HEXADECIMAL_RADIX + to_digit(digits[2]))

\* to_bytes::<N>: the length test, then one byte per two characters; the
\* first pair that does not parse gives the error, with its position.
to_bytes(hex, N) ==
    LET length == Len(hex)
        pair(i) == SubSeq(hex, 2 * i + 1, 2 * i + 2)
        \* &hex[start..start + 2] panics when an end of the range is inside
        \* a character.
        splits(i) == \/ ~is_char_boundary(hex, 2 * i)
                     \/ ~is_char_boundary(hex, 2 * i + 2)
        failing == {i \in 0..(N - 1) : splits(i) \/ to_byte(pair(i)).tag = "Err"}
        first == CHOOSE i \in failing : \A j \in failing : i <= j
    IN  IF length # N * 2 THEN InvalidLength(N * 2, length)
        ELSE IF failing # {}
             THEN IF splits(first) THEN Panic ELSE InvalidCharacter(2 * first)
             ELSE Ok([i \in 1..N |-> to_byte(pair(i - 1)).val])

\* Hash::from_string
from_string(hex, N) == to_bytes(hex, N)

\* Hash::new on a byte array.
HashNew ==
    /\ hashVal = None /\ text = None
    /\ \E b \in [1..K -> HashBytes] : hashVal' = Some(b)
    /\ UNCHANGED <<tableVars, fileVars, text, parsed, cut>>

\* Hash::to_hex on the hash in hand.
HashToHex ==
    /\ hashVal # None /\ text = None /\ cut = Pending
    /\ text' = Some(to_hex(hashVal[1]))
    /\ UNCHANGED <<tableVars, fileVars, hashVal, parsed, cut>>

\* A caller of from_string brings a string of its own.
HashInput ==
    /\ hashVal = None /\ text = None
    /\ \E s \in Strs : text' = Some(s)
    /\ UNCHANGED <<tableVars, fileVars, hashVal, parsed, cut>>

\* Hash::from_string on the string in hand.
HashFromString ==
    /\ text # None /\ parsed = Pending
    /\ parsed' = from_string(text[1], K)
    /\ UNCHANGED <<tableVars, fileVars, hashVal, text, cut>>

\* Hash::truncate::<M> on the hash in hand, for every width M up to one
\* more than the hash's own.
HashTruncate ==
    /\ hashVal # None /\ text = None /\ cut = Pending
    /\ \E M \in 0..(K + 1) :
          cut' = [width |-> M, outcome |-> truncate(hashVal[1], M)]
    /\ UNCHANGED <<tableVars, fileVars, hashVal, text, parsed>>

\* The conversions alone, on no table.
HashInit == TableInit /\ ~dirExists /\ solo = FALSE /\ HashIdle /\ FileOff

HashNext == HashNew \/ HashToHex \/ HashInput \/ HashFromString \/ HashTruncate

HashSpec == HashInit /\ [][HashNext]_vars

\* ---------------------------------------------------------- FileTable
\* One caller; the items of a set_many are set concurrently (join_all).
FileDirectory == [dir |-> <<>>, stem |-> <<>>, extension |-> ""]
ChunkDir(hash) == [dir |-> get_path(hash).dir, stem |-> <<>>, extension |-> ""]

\* FileTableError::new: the operation and the path; the source is an io::Error.
new(operation, path) == Err(operation, path, "Io")

\* FileTableError::new_batch
new_batch(succeeded, failed, errors) ==
    [tag |-> "Err", operation |-> "SetMany", path |-> None, kind |-> "Batch",
     succeeded |-> succeeded, failed |-> failed, errors |-> errors]

\* A faulty variant of create_dir_all that fails on a directory that exists
\* (create_dir).
create_dir(dirs, dir) == [ok |-> dir \notin dirs, dirs |-> dirs \cup {dir}]

\* create_dir_all: the directory and its parents exist afterwards; a
\* directory that exists already, made by another task meanwhile, is no error.
create_dir_all(dirs, dir) == [ok |-> TRUE, dirs |-> dirs \cup {dir}]

FileBusy == ftOp.kind # "none"
CanStartFile == ~FileBusy /\ ftOps < MaxFileOps
CanFaultFile == ftFaults < MaxFileFaults

\* The inputs of set_many: the mappings of some keys to source paths.
FileItemMaps ==
    UNION {[S -> SourcePaths] : S \in (SUBSET Hashes) \ {{}}}

\* A faulty variant of the outcome of set_many: the first error alone.
FirstError(o, rs) ==
    LET keys == SortedSeq(DOMAIN o.items)
        results == [i \in 1..Len(keys) |-> rs[keys[i]]]
        errors == SelectSeq(results, IsErr)
    IN  IF errors = <<>> THEN results[1] ELSE errors[1]

\* What the call returns once the sets of its items have ended with results
\* rs: set its own result; set_many Ok(()) or the batch of the errors, in
\* the order of the items.
FileOutcome(o, rs) ==
    LET keys == SortedSeq(DOMAIN o.items)
        results == [i \in 1..Len(keys) |-> rs[keys[i]]]
        successes == SelectSeq(results, LAMBDA r : ~IsErr(r))
        errors == SelectSeq(results, IsErr)
    IN  IF o.kind = "set_many"
        THEN IF errors = <<>> THEN Ok(<<>>)
             ELSE new_batch(Len(successes), Len(errors), errors)
        ELSE results[1]

\* The call returns r, its items' sets having returned rs.
FileLeave(r, rs, copied, begun) ==
    /\ ftReturned' = [op |-> ftOp, ret |-> r,
                      results |-> [h \in DOMAIN ftOp.items |-> rs[h]],
                      copied |-> ftCopied, begun |-> ftBegun]
    /\ ftOp' = NoFileOp
    /\ ftPc' = [h \in Hashes |-> "none"]
    /\ ftRes' = [h \in Hashes |-> Pending]
    /\ ftCopied' = copied
    /\ ftBegun' = begun

\* The set of item h ends with result r; the call returns with the last one.
FileTaskEnd(h, r, copied, begun) ==
    LET rs == [ftRes EXCEPT ![h] = r] IN
    IF \A h2 \in Hashes \ {h} : ftPc[h2] \in {"none", "done"}
    THEN FileLeave(FileOutcome(ftOp, rs), rs, copied, begun)
    ELSE /\ ftPc' = [ftPc EXCEPT ![h] = "done"]
         /\ ftRes' = rs
         /\ ftReturned' = NoFileReturn
         /\ ftCopied' = copied
         /\ ftBegun' = begun
         /\ UNCHANGED ftOp

\* The call begins: each item is at the top of set.
FileBegin(o) ==
    /\ ftOp' = o
    /\ ftPc' = [h \in Hashes |-> IF h \in DOMAIN o.items THEN "check" ELSE "none"]
    /\ ftOps' = ftOps + 1
    /\ ftReturned' = NoFileReturn
    /\ UNCHANGED <<tableVars, hashVars, ftRaced, ftRoot, ftDirs, ftFiles, ftRes,
                   ftFaults, ftCopied, ftBegun>>

\* FileTable::set(hash, path)
FileStartSet ==
    /\ CanStartFile
    /\ \E hash \in Hashes : \E path \in SourcePaths :
          FileBegin([kind |-> "set", key |-> hash,
                     items |-> [h \in {hash} |-> path]])

\* FileTable::set_many(items): one set per item, run together.
FileStartSetMany ==
    /\ CanStartFile
    /\ \E items \in FileItemMaps :
          FileBegin([kind |-> "set_many", key |-> <<>>, items |-> items])

\* FileTable::set_many on no items: join_all of nothing, Ok(()).
FileSetManyEmpty ==
    /\ CanStartFile
    /\ ftOps' = ftOps + 1
    /\ ftReturned' = [op |-> [kind |-> "set_many", key |-> <<>>,
                              items |-> EmptyMap],
                      ret |-> Ok(<<>>), results |-> EmptyMap,
                      copied |-> ftCopied, begun |-> ftBegun]
    /\ UNCHANGED <<tableVars, hashVars, ftRaced, ftRoot, ftDirs, ftFiles, ftOp, ftPc,
                   ftRes, ftFaults, ftCopied, ftBegun>>

\* set: stored_dir.exists()
FileCheckDir(h) ==
    /\ ftPc[h] = "check"
    /\ ftPc' = [ftPc EXCEPT ![h] =
                  IF get_path(h).dir \in ftDirs THEN "copy" ELSE "mkdir"]
    /\ ftReturned' = NoFileReturn
    /\ UNCHANGED <<tableVars, hashVars, ftRaced, ftRoot, ftDirs, ftFiles, ftOp, ftRes,
                   ftFaults, ftOps, ftCopied, ftBegun>>

\* set: create_dir_all(stored_dir), after the directory was seen missing.
FileCreateDir(h) ==
    LET made == create_dir_all(ftDirs, get_path(h).dir) IN
    /\ ftPc[h] = "mkdir"
    /\ ftRoot' = TRUE
    /\ ftDirs' = made.dirs
    /\ IF made.ok
       THEN /\ ftPc' = [ftPc EXCEPT ![h] = "copy"]
            /\ ftReturned' = NoFileReturn
            /\ UNCHANGED <<ftOp, ftRes, ftCopied, ftBegun>>
       ELSE FileTaskEnd(h, new("CreateDir", Some(ChunkDir(h))), ftCopied, ftBegun)
    /\ ftRaced' = IF get_path(h).dir \in ftDirs THEN ftRaced \cup {h} ELSE ftRaced
    /\ UNCHANGED <<tableVars, hashVars, ftFiles, ftFaults, ftOps>>

\* set: create_dir_all fails (an I/O fault).
FileCreateDirError(h) ==
    /\ ftPc[h] = "mkdir"
    /\ CanFaultFile
    /\ ftFaults' = ftFaults + 1
    /\ FileTaskEnd(h, new("CreateDir", Some(ChunkDir(h))), ftCopied, ftBegun)
    /\ UNCHANGED <<tableVars, hashVars, ftRaced, ftRoot, ftDirs, ftFiles, ftOps>>

\* set: copy finds no file at the source path; the error names the source.
FileCopyNoSource(h) ==
    /\ ftPc[h] = "copy"
    /\ ftOp.items[h] = NoSource
    /\ FileTaskEnd(h, new("CopyFile", Some(ftOp.items[h])), ftCopied, ftBegun)
    /\ UNCHANGED <<tableVars, hashVars, ftRaced, ftRoot, ftDirs, ftFiles, ftFaults, ftOps>>

\* set: copy opens the source and creates the stored file, or truncates
\* the one that exists.
FileCopyBegin(h) ==
    /\ ftPc[h] = "copy"
    /\ ftOp.items[h] # NoSource
    /\ ftFiles' = [ftFiles EXCEPT ![get_path(h)] = Partial(ftOp.items[h])]
    /\ ftPc' = [ftPc EXCEPT ![h] = "write"]
    /\ ftBegun' = ftBegun \cup {h}
    /\ ftReturned' = NoFileReturn
    /\ UNCHANGED <<tableVars, hashVars, ftRaced, ftRoot, ftDirs, ftOp, ftRes, ftFaults,
                   ftOps, ftCopied>>

\* set: copy has written all bytes; Ok(()).
FileCopyEnd(h) ==
    /\ ftPc[h] = "write"
    /\ ftFiles' = [ftFiles EXCEPT ![get_path(h)] = Whole(ftOp.items[h])]
    /\ FileTaskEnd(h, Ok(<<>>), ftCopied \cup {h}, ftBegun)
    /\ UNCHANGED <<tableVars, hashVars, ftRaced, ftRoot, ftDirs, ftFaults, ftOps>>

\* set: copy fails part-way (an I/O fault); the stored file keeps the bytes
\* written so far.
FileCopyError(h) ==
    /\ ftPc[h] = "write"
    /\ CanFaultFile
    /\ ftFaults' = ftFaults + 1
    /\ FileTaskEnd(h, new("CopyFile", Some(ftOp.items[h])), ftCopied, ftBegun)
    /\ UNCHANGED <<tableVars, hashVars, ftRaced, ftRoot, ftDirs, ftFiles, ftOps>>

\* A call that runs in one step returns r.
FileReturnAtOnce(o, r) ==
    /\ ftOps' = ftOps + 1
    /\ ftReturned' = [op |-> o, ret |-> r, results |-> EmptyMap,
                      copied |-> ftCopied, begun |-> ftBegun]
    /\ UNCHANGED <<tableVars, hashVars, ftRaced, ftRoot, ftDirs, ftFiles, ftOp, ftPc,
                   ftRes, ftFaults, ftCopied, ftBegun>>

\* path.is_file()
is_file(path) == path.dir \in ftDirs /\ ftFiles[path].exists

\* FileTable::get: the path, if a file is there.
FileGet ==
    /\ CanStartFile
    /\ \E hash \in Hashes :
          LET path == get_path(hash)
          IN  FileReturnAtOnce([kind |-> "get", key |-> hash, items |-> EmptyMap],
                               IF is_file(path) THEN Some(path) ELSE None)

\* The width of the table's keys.
KeyWidth == Len(CHOOSE h \in Hashes : TRUE)

\* The files get_all keeps: in a chunk directory, with the table's
\* extension and a stem that parses as a Hash<K>.
Listed ==
    {path \in FilePaths :
        /\ is_file(path)
        /\ path.extension = FileExtension
        /\ from_string(path.stem, KeyWidth).tag = "Ok"}

\* FileTable::get_all: the hash of the stem of every such file, with the path.
FileGetAll ==
    /\ CanStartFile
    /\ ftRoot
    /\ FileReturnAtOnce(
          [kind |-> "get_all", key |-> <<>>, items |-> EmptyMap],
          Ok([hash \in {from_string(path.stem, KeyWidth).val : path \in Listed} |->
                CHOOSE path \in Listed :
                    from_string(path.stem, KeyWidth).val = hash]))

\* FileTable::get_all: read_dir fails on a missing table directory.
FileGetAllReadDirError ==
    /\ CanStartFile
    /\ ~ftRoot
    /\ FileReturnAtOnce(
          [kind |-> "get_all", key |-> <<>>, items |-> EmptyMap],
          new("ReadDir", Some(FileDirectory)))

FileTaskStep(h) ==
    \/ FileCheckDir(h) \/ FileCreateDir(h) \/ FileCreateDirError(h)
    \/ FileCopyNoSource(h) \/ FileCopyBegin(h) \/ FileCopyEnd(h)
    \/ FileCopyError(h)

FileNext ==
    \/ FileStartSet \/ FileStartSetMany \/ FileSetManyEmpty
    \/ FileGet \/ FileGetAll \/ FileGetAllReadDirError
    \/ \E h \in Hashes : FileTaskStep(h)

\* A FileTable on a directory that exists, empty, or does not exist yet.
FileInit ==
    /\ TableInit /\ ~dirExists /\ solo = FALSE /\ HashIdle
    /\ ftRoot \in BOOLEAN
    /\ FileIdle

FileSpec == FileInit /\ [][FileNext]_vars

\* ------------------------------------------------------- properties
LockOf(c) == LockPath(ChunkPath(c))

\* The error acquire_lock returns for chunk c after its timeout.
TimeoutError(c) == Err("AcquireLock", Some(LockOf(c)), "TimedOut")

\* r is the error e, or a batch error that holds e.
Carries(r, e) ==
    \/ r = e
    \/ /\ IsErr(r)
       /\ r.kind = "Batch"
       /\ \E i \in DOMAIN r.errors : r.errors[i] = e

\* What a reader gets from a file: its mapping, or that it does not decode.
Observable(f) ==
    [bad |-> f.exists /\ f.bad,
     m |-> IF f.exists /\ ~f.bad THEN f.m ELSE EmptyMap]

\* C1: mutual exclusion per shard: at most one write task (set, remove or a
\* set_many chunk update) is between its successful acquire_lock and the end
\* of its release_lock on the same chunk, in every reachable state.
C1_MutualExclusion ==
    \A c \in Chunks : Cardinality({p \in Procs : tpc[p][c] \in Holding}) <= 1

\* A task holds a chunk's lock while another caller's task has already
\* failed an attempt on the same lock.
C1_Contended ==
    \E c \in Chunks : \E p, q \in Procs :
        /\ p # q
        /\ tpc[p][c] \in Holding
        /\ tpc[q][c] = "acquire"
        /\ elapsed[q][c] > 0

\* C2: serial equivalence on one chunk: whenever a chunk's lock is free, or
\* its holder has finished writing, the chunk file is the result of applying
\* the operations that acquired the lock one after another in the order in
\* which they acquired it (no update is lost).
C2_SerialEquivalence ==
    \A c \in Chunks :
        (~fs[LockOf(c)].exists \/ \E p \in Procs : tpc[p][c] = "release")
            => fs[ChunkPath(c)] = serial[c]

\* A set of key <<0,1>> that waited for another caller's write of key <<0,0>>
\* to the same chunk has written: both updates are in the file.
C2_BothStored ==
    \E p \in Procs :
        /\ tpc[p][<<0>>] = "release"
        /\ elapsed[p][<<0>>] > 0
        /\ op[p].kind = "set" /\ op[p].key = <<0, 1>> /\ op[p].item = 1
        /\ fs[ChunkPath(<<0>>)] = File(insert(insert(EmptyMap, <<0, 0>>, 2),
                                              <<0, 1>>, 1))

\* C3: the lock marker is released on every exit path: when a write task
\* that acquired a chunk's lock has ended, with success or with an error from
\* reading, decoding, serializing or writing the chunk file, the lock file
\* it created is gone.
C3_MarkerReleasedOnExit ==
    LET after == {"ReadChunk", "Deserialize", "Serialize", "WriteChunk"}
        Exited(r) == r.tag = "Ok" \/ (IsErr(r) /\ r.operation \in after)
        Left(p, c) == ~(fs[LockOf(c)].exists /\ owner[c] = p)
    IN  /\ returned.op.kind \in {"set", "remove"} /\ Exited(returned.ret)
            => Left(returned.proc, get_chunk_hash(returned.op.key))
        /\ \A p \in Procs : \A c \in Chunks :
              tpc[p][c] \in {"ok", "err"} /\ Exited(res[p][c]) => Left(p, c)

\* C4: a lock marker never persists across a successful operation: when no
\* write operation is in flight and every write operation that returned
\* returned success, no lock file exists for any chunk.
C4_NoMarkerAfterSuccess ==
    (~anyFail /\ \A p \in Procs : ~IsWrite(op[p]))
        => \A c \in Chunks : ~fs[LockOf(c)].exists

\* A write operation has just returned success, none is in flight and none
\* has failed.
C4_WriteReturnedOk ==
    /\ IsWrite(returned.op)
    /\ returned.ret.tag = "Ok"
    /\ ~anyFail
    /\ \A p \in Procs : Idle(p)

\* C5: an acquire_lock on a lock file that exists never takes the lock; it
\* leaves acquire_lock only after the elapsed time exceeds the timeout, and
\* then with the error (AcquireLock, TimedOut) that carries the lock path;
\* once the elapsed time exceeds the timeout it sleeps no more.
C5_HeldLockTimesOut ==
    [][\A p \in Procs : \A c \in Chunks :
          (tpc[p][c] = "acquire" /\ fs[LockOf(c)].exists) =>
              /\ tpc'[p][c] \notin Holding
              /\ tpc'[p][c] # "acquire" =>
                    /\ elapsed[p][c] > TimeoutTicks
                    /\ \/ tpc'[p][c] = "err" /\ res'[p][c] = TimeoutError(c)
                       \/ /\ returned'.proc = p
                          /\ Carries(returned'.ret, TimeoutError(c))
              /\ (elapsed[p][c] > TimeoutTicks /\ tpc'[p][c] = "acquire")
                    => elapsed'[p][c] = elapsed[p][c]]_vars

\* A set or remove has just returned the timeout error of a lock that its
\* holder still holds.
C5_TimedOutOnHeld ==
    \E c \in Chunks : \E q \in Procs :
        /\ returned.op.kind \in {"set", "remove"}
        /\ returned.ret = TimeoutError(c)
        /\ fs[LockOf(c)].exists
        /\ tpc[q][c] \in Holding

\* C6: after the holder releases, acquisition succeeds: a release_lock that
\* does not fail leaves no lock file, and an attempt of acquire_lock on a
\* lock file that does not exist (in a directory that does) takes the lock,
\* be it the first attempt or the retry of a task that has been waiting.
C6_AcquireAfterRelease ==
    [][\A p \in Procs : \A c \in Chunks :
          /\ (tpc[p][c] = "release" /\ tpc'[p][c] # "release"
                  /\ faults' = faults)
                => ~fs'[LockOf(c)].exists
          /\ (/\ tpc[p][c] = "acquire"
              /\ dirExists /\ ~fs[LockOf(c)].exists
              /\ (tpc'[p][c] # "acquire" \/ elapsed'[p][c] # elapsed[p][c]))
                => /\ tpc'[p][c] = "read"
                   /\ fs'[LockOf(c)].exists
                   /\ owner'[c] = p]_vars

\* A task that waited for the lock has taken it after the holder's release.
C6_AcquiredAfterWait ==
    \E p \in Procs : \E c \in Chunks :
        /\ tpc[p][c] = "read"
        /\ elapsed[p][c] > 0
        /\ owner[c] = p
        /\ fs[LockOf(c)].exists

\* C7: lock acquisition never blocks indefinitely: a task in acquire_lock
\* eventually leaves it, with the lock or with an error, even if the lock
\* file is never removed.
C7_AcquireReturns ==
    \A p \in Procs : \A c \in Chunks :
        (tpc[p][c] = "acquire") ~> (tpc[p][c] # "acquire")

\* A task waits for a lock file that no task holds any more: it will never
\* be removed.
C7_WaitsOnLeakedLock ==
    \E p \in Procs : \E c \in Chunks :
        /\ tpc[p][c] = "acquire"
        /\ elapsed[p][c] > 0
        /\ fs[LockOf(c)].exists
        /\ \A q \in Procs : tpc[q][c] \notin Holding

\* C8: reads are never torn: a get or get_all that returns has read every
\* chunk file either as it was before a write in flight or as it is after
\* that write.
C8_ReadsNeverTorn ==
    returned.op.kind \in {"get", "get_all"} => ~returned.torn

\* C9: no partial mutation on failure: when set or remove returns an error,
\* what readers get from the chunk file is what they would get had the call
\* not been made.
C9_NoPartialMutationOnFailure ==
    (returned.op.kind \in {"set", "remove"} /\ IsErr(returned.ret))
        => Observable(fs[ChunkPath(get_chunk_hash(returned.op.key))])
               = Observable(returned.before)

\* C10: set-then-get: after set(k, v) returned success and no writer has
\* taken the chunk's lock since, a get(k) returns v, unless the read of the
\* file itself fails.
C10_SetThenGet ==
    \A k \in Hashes : \A v \in Items :
        (/\ returned.op.kind = "get"
         /\ returned.op.key = k
         /\ lastSet[get_chunk_hash(k)] = Some(<<k, v>>))
            => \/ returned.ret = Ok(Some(v))
               \/ returned.ret = Err("ReadChunk",
                                     Some(ChunkPath(get_chunk_hash(k))), "Io")

\* A get of key <<0,0>>, which held 1 when the table was opened, returns the 2
\* that a set has stored since.
C10_GotWhatWasSet ==
    /\ returned.op.kind = "get"
    /\ returned.op.key = <<0, 0>>
    /\ lastSet[<<0>>] = Some(<<<<0, 0>>, 2>>)
    /\ returned.ret = Ok(Some(2))

\* The part of a key-to-record map that belongs to chunk c.
AbsChunk(a, c) == [h \in {x \in DOMAIN a : get_chunk_hash(x) = c} |-> a[h]]

\* The operation that has just returned ran alone, after successful writes
\* only, and returned success.
SoloOk(kind) ==
    /\ solo
    /\ ~anyFail
    /\ returned.op.kind = kind
    /\ returned.ret.tag = "Ok"

\* C11: last write wins: when a set(k, v) returns success after earlier
\* successful writes, the chunk file holds v for k, whatever k held before,
\* and every other key of the chunk with the value it had before.
C11_LastWriteWins ==
    SoloOk("set") =>
        LET k == returned.op.key
            c == get_chunk_hash(k)
            old == AbsChunk(returned.was, c)
        IN  fs[ChunkPath(c)] =
                File([h \in (DOMAIN old) \cup {k} |->
                        IF h = k THEN returned.op.item ELSE old[h]])

\* set(<<0,0>>, 2) has returned success on a chunk that held 1 for that key
\* and 1 for key <<0,1>>, which it still holds.
C11_Overwritten ==
    /\ SoloOk("set")
    /\ returned.op.key = <<0, 0>> /\ returned.op.item = 2
    /\ returned.was = [h \in {<<0, 0>>, <<0, 1>>} |-> 1]
    /\ lookup(fs[ChunkPath(<<0>>)].m, <<0, 0>>) = Some(2)
    /\ lookup(fs[ChunkPath(<<0>>)].m, <<0, 1>>) = Some(1)

\* What a get of key k would read from the chunk file now.
Stored(k) == lookup(fs[ChunkPath(get_chunk_hash(k))].m, k)

\* C12: set_many replace semantics: when set_many(items, replace) returns
\* success, every input key that the table already held keeps its value if
\* replace is false and holds the input value if replace is true; every
\* input key that the table did not hold holds the input value.
C12_ReplaceSemantics ==
    SoloOk("set_many") =>
        \A k \in DOMAIN returned.op.items :
            Stored(k) =
                IF ~returned.op.replace /\ k \in DOMAIN returned.was
                THEN Some(returned.was[k])
                ELSE Some(returned.op.items[k])

\* set_many({<<0,0>>: 2, <<0,1>>: 2}, replace = false) has returned success on
\* a table that held 1 for <<0,0>> and nothing for <<0,1>>.
C12_KeptAndInserted ==
    /\ SoloOk("set_many")
    /\ ~returned.op.replace
    /\ DOMAIN returned.op.items = {<<0, 0>>, <<0, 1>>}
    /\ returned.was = [h \in {<<0, 0>>} |-> 1]
    /\ Stored(<<0, 0>>) = Some(1)
    /\ Stored(<<0, 1>>) = Some(2)

\* C13: set_many's success result is the number of items added over all
\* chunks: every input key when replace is true, the input keys that the
\* table did not hold when replace is false.
C13_AddedCount ==
    SoloOk("set_many") =>
        returned.ret.val =
            <<Cardinality({k \in DOMAIN returned.op.items :
                              returned.op.replace \/ k \notin DOMAIN returned.was})>>

\* set_many without replace has returned 0 for two keys that were both stored.
C13_NothingAdded ==
    /\ SoloOk("set_many")
    /\ ~returned.op.replace
    /\ DOMAIN returned.op.items = {<<0, 0>>, <<0, 1>>}
    /\ DOMAIN returned.was = {<<0, 0>>, <<0, 1>>}
    /\ returned.ret = Ok(<<0>>)

\* The chunks that the entries of a batch error name, by chunk path or by
\* lock path.
FailedChunks(r) ==
    {c \in Chunks : \E i \in DOMAIN r.errors :
        r.errors[i].path \in {Some(ChunkPath(c)), Some(LockOf(c))}}

\* C14: set_many partial failure: a set_many that fails returns one batch
\* error (SetMany); its succeeded and failed counts add up to the number of
\* chunks of the input, its error list has one entry for each failed chunk
\* and for no other, and every chunk of the input that did not fail holds
\* the input keys as written (with replace: the input values).
C14_PartialFailure ==
    (solo /\ returned.op.kind = "set_many" /\ IsErr(returned.ret)) =>
        LET r == returned.ret
            o == returned.op
            chunks == group_by_chunk(o.items)
        IN  /\ r.operation = "SetMany" /\ r.kind = "Batch"
            /\ r.succeeded + r.failed = Cardinality(DOMAIN chunks)
            /\ r.failed = Len(r.errors) /\ r.failed >= 1
            /\ Cardinality(FailedChunks(r)) = r.failed
            /\ FailedChunks(r) \subseteq DOMAIN chunks
            /\ \A c \in (DOMAIN chunks) \ FailedChunks(r) :
                  \A k \in DOMAIN chunks[c] :
                      /\ Stored(k) # None
                      /\ o.replace => Stored(k) = Some(o.items[k])

\* set_many over chunks <<0>> and <<1>> has returned a batch error: chunk <<0>>
\* failed, chunk <<1>> succeeded and holds its key.
C14_OneFailedOneWritten ==
    /\ solo /\ returned.op.kind = "set_many" /\ IsErr(returned.ret)
    /\ returned.ret.succeeded = 1 /\ returned.ret.failed = 1
    /\ FailedChunks(returned.ret) = {<<0>>}
    /\ Stored(<<1, 0>>) = Some(2)

\* C15: writers to different chunks do not block each other: while some
\* task holds the lock of another chunk, an attempt of acquire_lock on a
\* chunk that no task has locked takes the lock at once, without a sleep.
C15_ShardsIndependent ==
    [][\A p \in Procs : \A c \in Chunks :
          (/\ tpc[p][c] = "acquire"
           /\ dirExists
           /\ owner[c] = 0
           /\ \A q \in Procs : tpc[q][c] \notin Holding
           /\ \E q \in Procs : \E d \in Chunks \ {c} : tpc[q][d] \in Holding
           /\ (tpc'[p][c] # "acquire" \/ elapsed'[p][c] # elapsed[p][c]))
              => /\ tpc'[p][c] = "read"
                 /\ elapsed'[p][c] = elapsed[p][c]]_vars

\* Two callers hold the locks of two chunks at once, the second without
\* having waited.
C15_BothHold ==
    \E p, q \in Procs :
        /\ p # q
        /\ tpc[p][<<0>>] \in Holding
        /\ tpc[q][<<1>>] \in Holding
        /\ elapsed[q][<<1>>] = 0
        /\ op[q].kind \in {"set", "remove"}

\* No file of the table is undecodable.
WellFormed == \A c \in Chunks : ~(fs[ChunkPath(c)].exists /\ fs[ChunkPath(c)].bad)

\* The chunk files hold exactly the entries of a.
Holds(a) ==
    /\ \A h \in DOMAIN a : Stored(h) = Some(a[h])
    /\ \A h \in Hashes : h \notin DOMAIN a => Stored(h) = None

C17_RemoveStored ==
    (SoloOk("remove") /\ returned.op.key \in DOMAIN returned.was) =>
        LET k == returned.op.key
            c == get_chunk_hash(k)
            old == AbsChunk(returned.was, c)
        IN  /\ returned.ret = Ok(Some(returned.was[k]))
            /\ Stored(k) = None
            /\ fs[ChunkPath(c)] = File([h \in (DOMAIN old) \ {k} |-> old[h]])
            /\ \A h \in (DOMAIN returned.was) \ {k} :
                  Stored(h) = Some(returned.was[h])

\* remove(00 00) returned the stored 2 and left 00 01 in the chunk.
C17_RemovedOneOfTwo ==
    /\ solo /\ ~anyFail
    /\ returned.op.kind = "remove" /\ returned.op.key = <<0, 0>>
    /\ returned.ret = Ok(Some(2))
    /\ fs[ChunkPath(<<0>>)] = File([h \in {<<0, 1>>} |-> 2])

\* The caller is between two operations.
Quiet == \A p \in Procs : Idle(p)

\* C18: the table refines a map from keys to records.  After any sequential
\* series of successful set, set_many and remove calls, the chunk files hold
\* exactly the keys set and not removed since, each with its last value;
\* get_all returns exactly that map and get returns the value of a key of the
\* map and "not found" for every other key, a key of a chunk never written
\* included.
C18_RefinesMap ==
    (solo /\ ~anyFail /\ WellFormed) =>
        /\ Quiet => Holds(abs)
        /\ returned.op.kind = "get" =>
              /\ returned.ret.tag = "Ok" =>
                    returned.ret = Ok(lookup(returned.was, returned.op.key))
              /\ faults = 0 => returned.ret.tag = "Ok"
        /\ returned.op.kind = "get_all" =>
              /\ returned.ret.tag = "Ok" => returned.ret = Ok(returned.was)
              /\ (faults = 0 /\ dirExists) => returned.ret.tag = "Ok"

\* get_all returned the two entries of two chunks, one of them set by a call.
C18_ListedBothChunks ==
    /\ solo /\ ~anyFail /\ WellFormed
    /\ returned.op.kind = "get_all"
    /\ returned.ret = Ok([h \in {<<0, 0>>, <<1, 0>>} |->
                              IF h = <<0, 0>> THEN 1 ELSE 2])
    /\ nops = 2

\* C19: get_all on a table directory that exists and has no entry returns
\* the empty map without error; get_all on a table directory that does not
\* exist returns the read_dir error, never an empty result.
C19_EmptyVersusMissing ==
    returned.op.kind = "get_all" =>
        /\ ~dirExists => returned.ret = Err("ReadDir", Some(Directory), "Io")
        /\ (dirExists /\ Entries = {}) => returned.ret = Ok(EmptyMap)

\* get_all returned the read_dir error on a missing directory.
C19_MissingDirectory ==
    /\ ~dirExists
    /\ returned.op.kind = "get_all"
    /\ returned.ret.tag = "Err"
    /\ returned.ret.operation = "ReadDir"

\* get_all returned the empty map on an empty directory.
C19_EmptyDirectory ==
    /\ dirExists /\ Entries = {}
    /\ returned.op.kind = "get_all"
    /\ returned.ret = Ok(EmptyMap)

\* C20: the text of a hash parses back to the hash: for every byte array b,
\* from_string(new(b).to_hex()) is Ok(new(b)); and to_hex yields two
\* lowercase hex characters per byte.
C20_HexRoundTrip ==
    /\ (hashVal # None /\ text # None) =>
          /\ Len(text[1]) = 2 * Len(hashVal[1])
          /\ \A i \in 1..Len(text[1]) :
                \E d \in 1..HEXADECIMAL_RADIX : text[1][i] = HexDigits[d]
    /\ (hashVal # None /\ parsed # Pending) => parsed = Ok(hashVal[1])

\* The hash ab 09 was written as "ab09" and parsed back.
C20_ParsedBack ==
    /\ hashVal = Some(<<171, 9>>)
    /\ text = Some(<<"a", "b", "0", "9">>)
    /\ parsed = Ok(<<171, 9>>)

\* The string has a character that is no hexadecimal digit.
HasNonHex(s) == \E i \in 1..Len(s) : to_digit(s[i]) = HEXADECIMAL_RADIX

\* C21: from_string rejects every malformed input: InvalidLength for a
\* string whose length is not 2N, InvalidCharacter for a string of length 2N
\* with a character that is no hexadecimal digit, a "+" sign included.
C21_RejectsMalformed ==
    (hashVal = None /\ text # None /\ parsed # Pending) =>
        /\ Len(text[1]) # 2 * K =>
              parsed = InvalidLength(2 * K, Len(text[1]))
        /\ (Len(text[1]) = 2 * K /\ HasNonHex(text[1])) =>
              /\ parsed.tag = "Err"
              /\ parsed.error = "InvalidCharacter"

\* C22: truncate::<M> returns None when M exceeds the width of the hash,
\* without aborting, and the hash of the first M bytes otherwise.
C22_TruncateTotal ==
    cut # Pending =>
        /\ ~cut.outcome.panic
        /\ cut.outcome.value =
              IF cut.width > Len(hashVal[1]) THEN None
              ELSE Some([i \in 1..cut.width |-> hashVal[1][i]])

\* The first C bytes of a key.
FirstBytes(h) == [i \in 1..C |-> h[i]]

\* C23: the chunk of a key is a function of its first C bytes alone: keys
\* with the same first C bytes have the same chunk file, the same lock file
\* and the same FileTable directory, and every operation works on the chunk
\* its key has: the task of a set or remove, the tasks of a set_many, and
\* the file a get reads.
C23_StableAssignment ==
    /\ \A h1, h2 \in Hashes :
          FirstBytes(h1) = FirstBytes(h2) =>
              /\ get_chunk_hash(h1) = get_chunk_hash(h2)
              /\ ChunkPath(get_chunk_hash(h1)) = ChunkPath(get_chunk_hash(h2))
              /\ LockOf(get_chunk_hash(h1)) = LockOf(get_chunk_hash(h2))
              /\ get_path(h1).dir = get_path(h2).dir
    /\ \A p \in Procs : \A c \in Chunks :
          tpc[p][c] # "none" =>
              /\ op[p].kind \in {"set", "remove"} => c = FirstBytes(op[p].key)
              /\ op[p].kind = "set_many" =>
                    \E k \in DOMAIN op[p].items : c = FirstBytes(k)
    /\ (returned.op.kind = "get" /\ returned.ret.tag = "Ok"
            /\ returned.ret.val # None) =>
          lookup(fs[[stem |-> to_hex(FirstBytes(returned.op.key)),
                     extension |-> CHUNK_FILE_EXTENSION]].m,
                 returned.op.key) = returned.ret.val

\* Two callers with different keys of the same first byte meet at one lock:
\* one holds it, the other has slept on it.
C23_SameChunkContended ==
    \E p, q \in Procs :
        /\ op[p].kind = "set" /\ op[p].key = <<0, 0>>
        /\ op[q].kind \in {"set", "remove"} /\ op[q].key = <<0, 1>>
        /\ tpc[p][<<0>>] \in Holding
        /\ tpc[q][<<0>>] = "acquire"
        /\ elapsed[q][<<0>>] > 0

\* C24: FileTable get(k) returns a path if and only if a set of k (alone or
\* as an item of set_many) has succeeded; the path is a file; and get_all
\* has exactly one entry per such key.
C24_VisibleIffStored ==
    /\ ftReturned.op.kind = "get" =>
          /\ ftReturned.ret # None <=> ftReturned.op.key \in ftCopied
          /\ ftReturned.ret # None => is_file(ftReturned.ret[1])
    /\ (ftReturned.op.kind = "get_all" /\ ftReturned.ret.tag = "Ok") =>
          DOMAIN ftReturned.ret.val = ftCopied

\* What holds in place of C24: FileTable get(k) returns a path if and only
\* if the copy of a set of k has created the file, whether the copy went on
\* to succeed or failed part-way: a key never set returns None and a key
\* whose set succeeded returns its path; the path is a file; get_all has
\* exactly one entry per such key, the path get returns.
C24_VisibleIffFileMade ==
    /\ ftCopied \subseteq ftBegun
    /\ ftReturned.op.kind = "get" =>
          LET k == ftReturned.op.key IN
          /\ ftReturned.ret # None <=> k \in ftBegun
          /\ ftReturned.ret # None =>
                /\ is_file(ftReturned.ret[1])
                /\ ftReturned.ret[1].dir = to_hex(FirstBytes(k))
                /\ ftReturned.ret[1].stem = to_hex(k)
    /\ (ftReturned.op.kind = "get_all" /\ ftReturned.ret.tag = "Ok") =>
          /\ DOMAIN ftReturned.ret.val = ftBegun
          /\ \A k \in ftBegun :
                /\ is_file(ftReturned.ret.val[k])
                /\ ftReturned.ret.val[k].stem = to_hex(k)

\* get found the file of a key that a set has stored, and no other file
\* is there.
C24_FoundStored ==
    /\ ftReturned.op.kind = "get"
    /\ ftReturned.op.key = <<0, 1>>
    /\ ftReturned.ret # None
    /\ ftCopied = {<<0, 1>>}
    /\ ftBegun = {<<0, 1>>}

\* The items of the returned call whose set failed.
FailedItems == {k \in DOMAIN ftReturned.op.items : IsErr(ftReturned.results[k])}

\* C25: FileTable set_many never fails fast: when it returns, the set of
\* every item has run to its end, whatever became of the others; if any
\* failed the call returns one batch error whose succeeded and failed counts
\* add up to the number of items and whose errors are the causes of the
\* failed items, one each; and the file of every item whose copy succeeded
\* is stored.
C25_NeverFailsFast ==
    ftReturned.op.kind = "set_many" =>
        LET items == ftReturned.op.items
            r == ftReturned.ret
            failed == SortedSeq(FailedItems)
        IN  /\ \A k \in DOMAIN items : ftReturned.results[k] # Pending
            /\ ftFaults = 0 => FailedItems = {k \in DOMAIN items : items[k] = NoSource}
            /\ IsErr(r) <=> FailedItems # {}
            /\ IsErr(r) =>
                  /\ r.operation = "SetMany" /\ r.kind = "Batch"
                  /\ r.succeeded + r.failed = Cardinality(DOMAIN items)
                  /\ r.failed = Cardinality(FailedItems)
                  /\ r.errors = [i \in 1..Len(failed) |->
                                    ftReturned.results[failed[i]]]
            /\ \A k \in (DOMAIN items) \ FailedItems :
                  ftFiles[get_path(k)] = Whole(items[k])

\* A set_many of three items, one without a source file: the batch error
\* counts two and one, and the two are stored.
C25_TwoStoredOneFailed ==
    /\ ftReturned.op.kind = "set_many"
    /\ IsErr(ftReturned.ret)
    /\ ftReturned.ret.succeeded = 2
    /\ ftReturned.ret.failed = 1
    /\ FailedItems = {<<0, 0>>}
    /\ ftFiles[get_path(<<0, 1>>)].whole
    /\ ftFiles[get_path(<<1, 0>>)].whole

\* C26: chunk files change only under the lock: a step that creates a chunk
\* file or changes its content is a step of a task of a set, remove or
\* set_many that holds the lock file of that chunk at that moment; a lock
\* file is created only by such a task in acquire_lock; and no step of a
\* get or get_all changes any file.
C26_WritesUnderLock ==
    [][/\ \A c \in Chunks :
             fs'[ChunkPath(c)] # fs[ChunkPath(c)] =>
                 \E p \in Procs :
                     /\ IsWrite(op[p])
                     /\ tpc[p][c] \in Holding
                     /\ tpc'[p][c] # tpc[p][c]
                     /\ owner[c] = p
                     /\ fs[LockOf(c)].exists
       /\ \A c \in Chunks :
             (~fs[LockOf(c)].exists /\ fs'[LockOf(c)].exists) =>
                 \E p \in Procs :
                     /\ IsWrite(op[p])
                     /\ tpc[p][c] = "acquire"
                     /\ tpc'[p][c] = "read"
       /\ fs' # fs =>
             /\ returned'.op.kind \notin {"get", "get_all"}
             /\ \A p \in Procs :
                   op[p].kind = "get_all" =>
                       op'[p] = op[p] /\ todo'[p] = todo[p]]_vars

\* A task that holds the lock of chunk 01 has created the chunk file, in the
\* middle of another caller's get_all.
C26_CreatedUnderLock ==
    \E p, q \in Procs :
        /\ tpc[p][<<1>>] = "writing"
        /\ preWrite[<<1>>] = NoFile
        /\ fs[ChunkPath(<<1>>)].exists
        /\ fs[LockOf(<<1>>)].exists
        /\ owner[<<1>>] = p
        /\ op[q].kind = "get_all"

\* A chunk file that exists is not deleted by the step.
ChunkFileStays ==
    \A c \in Chunks : fs[ChunkPath(c)].exists => fs'[ChunkPath(c)].exists

\* With no failure before: the remove of the last key of a chunk has left
\* the chunk file with the empty mapping, and a get or set of a key of a
\* chunk whose file holds the empty mapping, or a get_all, succeeds.
EmptiedChunkServes ==
    (solo /\ ~anyFail /\ faults = 0 /\ WellFormed) =>
        LET k == returned.op.key
            path == ChunkPath(get_chunk_hash(k))
        IN  /\ (/\ returned.op.kind = "remove"
                /\ returned.ret.tag = "Ok"
                /\ DOMAIN AbsChunk(returned.was, get_chunk_hash(k)) = {k})
                  => fs[path] = File(EmptyMap)
            /\ (returned.op.kind = "get" /\ fs[path] = File(EmptyMap))
                  => returned.ret = Ok(None)
            /\ (returned.op.kind = "set" /\ returned.before = File(EmptyMap))
                  => returned.ret.tag = "Ok"
            /\ (returned.op.kind = "get_all" /\ dirExists)
                  => returned.ret.tag = "Ok"

C28_KeysInOwnChunk ==
    /\ \A c \in Chunks : \A k \in DOMAIN fs[ChunkPath(c)].m : FirstBytes(k) = c
    /\ \A c1, c2 \in Chunks :
          c1 # c2 =>
              (DOMAIN fs[ChunkPath(c1)].m) \cap (DOMAIN fs[ChunkPath(c2)].m) = {}
    /\ \A p \in Procs :
          op[p].kind = "get_all" =>
              \A k \in DOMAIN acc[p] : ChunkPath(FirstBytes(k)) \notin todo[p]

\* Both chunk files hold keys and a get_all has merged one of them, the
\* other still to be read.
C28_MergingTwoChunks ==
    \E p \in Procs :
        /\ <<0, 1>> \in DOMAIN fs[ChunkPath(<<0>>)].m
        /\ <<1, 0>> \in DOMAIN fs[ChunkPath(<<1>>)].m
        /\ op[p].kind = "get_all"
        /\ acc[p] # EmptyMap
        /\ \E path \in todo[p] : IsChunkFile(path)

\* A step in which a get_all is done with exactly one entry, and that entry
\* is no chunk file by its extension, leaves the items as they are and
\* returns no error: the get_all goes on, or returns the items it has.
LockEntrySkipped ==
    \A p \in Procs :
        op[p].kind = "get_all" =>
            \A path \in todo[p] :
                (/\ todo[p] \ todo'[p] = {path}
                 /\ path.extension # CHUNK_FILE_EXTENSION) =>
                    IF op'[p] = op[p]
                    THEN acc'[p] = acc[p]
                    ELSE returned'.ret = Ok(acc[p])

\* A get_all that fails fails on the directory or on a chunk file, and the
\* entries it returns are entries of chunk files.
OnlyChunkFilesCount ==
    returned.op.kind = "get_all" =>
        /\ IsErr(returned.ret) =>
              \/ returned.ret.path = Some(Directory)
              \/ \E c \in Chunks : returned.ret.path = Some(ChunkPath(c))
        /\ returned.ret.tag = "Ok" =>
              \A k \in DOMAIN returned.ret.val :
                  fs[ChunkPath(FirstBytes(k))].exists

\* C29: get_all ignores lock files: run while lock files are in the table
\* directory, of a writer in flight or left over, it skips them, does not
\* fail because of them and returns only entries decoded from files with
\* the chunk extension.
C29_LockFilesIgnored == [][LockEntrySkipped]_vars /\ []OnlyChunkFilesCount

\* A get_all has merged the entry of chunk 00 and has only the lock file of
\* chunk 01, whose writer is in flight, left to visit.
C29_LockFileListed ==
    \E p, q \in Procs :
        /\ op[p].kind = "get_all"
        /\ acc[p] # EmptyMap
        /\ todo[p] = {LockOf(<<1>>)}
        /\ fs[LockOf(<<1>>)].exists
        /\ tpc[q][<<1>>] \in Holding

\* C30: a FileTable set_many with several items of one chunk whose
\* directory does not exist yet stores them all: the sets that each saw the
\* directory missing and each call create_dir_all all succeed, and every
\* item is then a file that get finds and get_all lists.  (With a source
\* file for every item and no I/O fault.)
C30_RacingCreateDir ==
    (/\ ftReturned.op.kind = "set_many"
     /\ ftFaults = 0
     /\ \A k \in DOMAIN ftReturned.op.items : ftReturned.op.items[k] # NoSource) =>
        /\ ftReturned.ret = Ok(<<>>)
        /\ \A k \in DOMAIN ftReturned.op.items :
              /\ ftFiles[get_path(k)] = Whole(ftReturned.op.items[k])
              /\ is_file(get_path(k))
              /\ get_path(k) \in Listed

\* The first call, a set_many with the keys 00 00 and 00 01, returned Ok
\* after one of the two sets had found the directory 00, which it had seen
\* missing, made by the other.
C30_BothSawMissing ==
    /\ ftOps = 1
    /\ ftReturned.op.kind = "set_many"
    /\ {<<0, 0>>, <<0, 1>>} \subseteq DOMAIN ftReturned.op.items
    /\ ftReturned.ret = Ok(<<>>)
    /\ ftRaced \cap {<<0, 0>>, <<0, 1>>} # {}

\* Task (p, c) leaves acquire_lock with the timeout error in the step.
TimesOut(p, c) ==
    /\ tpc[p][c] = "acquire"
    /\ \/ tpc'[p][c] = "err" /\ res'[p][c] = TimeoutError(c)
       \/ /\ returned'.proc = p
          /\ tpc'[p][c] = "none"
          /\ Carries(returned'.ret, TimeoutError(c))

\* C31: a lock timeout means the chunk was busy: acquire_lock returns its
\* timeout error only from creation attempts that failed because the lock
\* file existed; an attempt that fails for another reason, such as a table
\* directory that does not exist, is not reported as a lock timeout.
C31_TimeoutMeansBusy ==
    [][\A p \in Procs : \A c \in Chunks :
          TimesOut(p, c) => (dirExists /\ fs[LockOf(c)].exists)]_vars

\* group_by_chunk splits the items of every set_many in flight so that each
\* key is in exactly one group, the group of the chunk of its first C bytes,
\* with its item; no group is empty; there is one task per group; and the
\* tasks of one call have lock files of their own.
OneTaskPerChunk ==
    \A p \in Procs :
        op[p].kind = "set_many" =>
            LET items == op[p].items
                groups == group_by_chunk(items)
            IN  /\ \A k \in DOMAIN items :
                      /\ {c \in DOMAIN groups : k \in DOMAIN groups[c]}
                            = {FirstBytes(k)}
                      /\ groups[FirstBytes(k)][k] = items[k]
                /\ \A c \in DOMAIN groups :
                      /\ groups[c] # EmptyMap
                      /\ DOMAIN groups[c] \subseteq DOMAIN items
                /\ {c \in Chunks : tpc[p][c] # "none"} = DOMAIN groups
                /\ \A c1, c2 \in DOMAIN groups :
                      c1 # c2 => LockOf(c1) # LockOf(c2)

\* With no other writer and no lock file left by a failed call, a step of a
\* task of a set_many in acquire_lock takes the lock, on the first attempt.
FirstAttemptAcquires ==
    \A c \in Chunks :
        (/\ solo /\ ~anyFail /\ dirExists
         /\ op[1].kind = "set_many"
         /\ tpc[1][c] = "acquire"
         /\ (tpc'[1][c] # tpc[1][c] \/ elapsed'[1][c] # elapsed[1][c]))
            => /\ tpc'[1][c] = "read"
               /\ elapsed[1][c] = 0
               /\ elapsed'[1][c] = 0

\* C32: a set_many never contends with itself: group_by_chunk puts every
\* input key in exactly one group, the group of its own chunk, and each
\* chunk has exactly one update task; no two tasks of the call wait on the
\* same lock file, and with no other writers every task acquires its lock
\* on the first attempt.
C32_NoSelfContention == []OneTaskPerChunk /\ [][FirstAttemptAcquires]_vars

\* The two tasks of one set_many hold the locks of their chunks at the same
\* time, neither having waited.
C32_BothTasksHold ==
    /\ solo /\ ~anyFail
    /\ op[1].kind = "set_many"
    /\ tpc[1][<<0>>] \in Holding
    /\ tpc[1][<<1>>] \in Holding
    /\ elapsed[1][<<0>>] = 0
    /\ elapsed[1][<<1>>] = 0

====
